---------------------------- MODULE Spec2Model ----------------------------
(***************************************************************************)
(* State-machine model of bindsnet/learning/learning.py: the learning      *)
(* rules NoOp, PostPre, WeightDependentPostPre, Hebbian, MSTDP, MSTDPET    *)
(* and Rmax, their constructors and their update methods.                  *)
(*                                                                         *)
(* Numbers.  A torch float is modelled by an extended rational <<n, d>>    *)
(* in lowest terms: d > 0 is the number n/d, <<1,0>> is +inf, <<-1,0>> is  *)
(* -inf and <<0,0>> is NaN.  Arithmetic is exact.  exp and log are the     *)
(* pair of mutually inverse rational maps Exp and Log defined below.       *)
(*                                                                         *)
(* Tensors are nested sequences.  A dense connection has                   *)
(* w[i][k] (i a source unit, k a target unit), populations hold s[b][i].   *)
(* A convolutional connection has a kernel of size [out_channels,          *)
(* in_channels, 1, KernelW], held as w[o][j] with j = (c-1)*KernelW + k    *)
(* running over the row-major flattening of the last three axes (what      *)
(* .view(w.size()) of an [out_channels, in_channels*KernelW] matrix is).   *)
(* Its source holds s[b][c][p] (one row of SourceW pixels), its target     *)
(* s[b][o][l] (stride 1, no padding, OutW = SourceW - KernelW + 1).        *)
(***************************************************************************)
EXTENDS Integers, Sequences, FiniteSets, TLC

VARIABLES
    pc,          \* "new": before __init__, "ready": constructed, "failed": __init__ raised
    args,        \* the arguments given to the rule's constructor
    self,        \* the rule object: a record of the attributes set so far
    connection,  \* the connection: type, w, wmin, wmax, dt
    source,      \* the pre-synaptic population: traces, batch_size, s, x
    target,      \* the post-synaptic population: class, traces, s, x, x_neg, s_prob
    kwargs,      \* the keyword arguments of the last update call
    raised,      \* the exception the last operation ended with, or "none"
    calls        \* the number of update calls made so far

vars == <<pc, args, self, connection, source, target, kwargs, raised, calls>>

---------------------------------------------------------------------------
(* Bounds of the model. *)

MaxCalls == 3        \* update calls in one behaviour
MaxBatch == 2        \* batch sizes 1..MaxBatch
SourceN == 2         \* units of a dense source population
TargetN == 1         \* units of a dense target population
OutChannels == 2     \* kernel: out_channels
InChannels == 1      \* kernel: in_channels
KernelW == 2         \* kernel: kernel_width (kernel_height is 1)
OutW == 1            \* output positions of the convolution

SourceW == OutW + KernelW - 1

---------------------------------------------------------------------------
(* Extended rational arithmetic. *)

Abs(n) == IF n < 0 THEN -n ELSE n

Sign(n) == IF n < 0 THEN -1 ELSE IF n > 0 THEN 1 ELSE 0

RECURSIVE Gcd(_, _)
Gcd(a, b) == IF b = 0 THEN a ELSE Gcd(b, a % b)

R(n, d) ==
    IF d = 0 THEN <<Sign(n), 0>>
    ELSE LET g == Gcd(Abs(n), Abs(d))
         IN  <<Sign(d) * (n \div g), Sign(d) * (d \div g)>>

Zero == <<0, 1>>
One == <<1, 1>>
PosInf == <<1, 0>>
NegInf == <<-1, 0>>
NaN == <<0, 0>>

IsFinite(a) == a[2] # 0
IsNaN(a) == a = NaN

Neg(a) == <<-a[1], a[2]>>

Add(a, b) ==
    IF a[2] = 0 /\ b[2] = 0
    THEN (IF a = b THEN a ELSE NaN)
    ELSE IF a[2] = 0 THEN a
    ELSE IF b[2] = 0 THEN b
    ELSE LET g == Gcd(a[2], b[2])
         IN  R(a[1] * (b[2] \div g) + b[1] * (a[2] \div g), (a[2] \div g) * b[2])

Sub(a, b) == Add(a, Neg(b))

Mul(a, b) ==
    IF a[2] = 0 \/ b[2] = 0 THEN <<Sign(a[1]) * Sign(b[1]), 0>>
    ELSE LET g1 == Gcd(Abs(a[1]), b[2])
             g2 == Gcd(Abs(b[1]), a[2])
         IN  <<(a[1] \div g1) * (b[1] \div g2), (a[2] \div g2) * (b[2] \div g1)>>

\* 1/b: 1/0 is +inf (the zero of the model is unsigned), 1/inf is 0
Recip(b) ==
    IF b[1] = 0 THEN <<Sign(b[2]), 0>>
    ELSE IF b[2] = 0 THEN Zero
    ELSE <<Sign(b[1]) * b[2], Abs(b[1])>>

Div(a, b) ==
    IF a[2] = 0 /\ b[2] = 0 THEN NaN
    ELSE Mul(a, Recip(b))

\* a < b as IEEE compares: FALSE when either side is NaN.
Lt(a, b) ==
    IF IsNaN(a) \/ IsNaN(b) THEN FALSE
    ELSE IF a[2] = 0 /\ b[2] = 0 THEN a[1] < b[1]
    ELSE a[1] * b[2] < b[1] * a[2]

Le(a, b) == ~IsNaN(a) /\ ~IsNaN(b) /\ ~Lt(b, a)

\* A Python truth test of a number: zero is false, everything else is true.
Truthy(a) == a # Zero

\* torch.exp and np.log.  Exp is the (1,1) Pade approximant of e^x (exact at
\* 0, 39/41 at -1/20) and Log is its inverse on the positive numbers, so
\* Log(Exp(x)) = x; Log(0) is -inf and the log of a negative number is NaN,
\* as numpy computes them.
Exp(x) == Div(Add(<<2, 1>>, x), Sub(<<2, 1>>, x))

Log(y) ==
    IF IsNaN(y) \/ Lt(y, Zero) THEN NaN
    ELSE IF y = Zero THEN NegInf
    ELSE IF y = PosInf THEN PosInf
    ELSE Div(Mul(<<2, 1>>, Sub(y, One)), Add(y, One))

---------------------------------------------------------------------------
(* Tensors. *)

Vec(n, F(_)) == [i \in 1..n |-> F(i)]

Mat(n, m, F(_, _)) == [i \in 1..n |-> [k \in 1..m |-> F(i, k)]]

Ten3(n, m, l, F(_, _, _)) ==
    [i \in 1..n |-> [k \in 1..m |-> [j \in 1..l |-> F(i, k, j)]]]

\* q[1] + ... + q[m]
RECURSIVE SumSeq(_, _)
SumSeq(q, m) == IF m = 0 THEN Zero ELSE Add(SumSeq(q, m - 1), q[m])

SumTo(n, F(_)) == SumSeq([i \in 1..n |-> F(i)], n)

\* self.reduction(t, dim=0) of a tensor t[b] with nb entries along dim 0,
\* one entry of the result: F(b) is that entry of t[b].
Reduce(reduction, nb, F(_)) ==
    IF reduction = "sum" THEN SumTo(nb, F)
    ELSE Div(SumTo(nb, F), <<nb, 1>>)

MapM(a, F(_)) == [i \in DOMAIN a |-> [k \in DOMAIN a[i] |-> F(a[i][k])]]

ZipM(a, b, F(_, _)) == [i \in DOMAIN a |-> [k \in DOMAIN a[i] |-> F(a[i][k], b[i][k])]]

AddM(a, b) == ZipM(a, b, Add)

ScaleM(c, a) == MapM(a, LAMBDA x : Mul(c, x))

ZerosM(n, m) == Mat(n, m, LAMBDA i, k : Zero)

\* A tensor filled by two values in a checkerboard: the inputs of the model
\* are drawn from these, so that units and batch samples can differ.
Board2(n, m, u, v) == Mat(n, m, LAMBDA i, k : IF (i + k) % 2 = 0 THEN u ELSE v)

Board3(n, m, l, u, v) ==
    Ten3(n, m, l, LAMBDA i, k, j : IF (i + k + j) % 2 = 0 THEN u ELSE v)

Get(rec, key, default) == IF key \in DOMAIN rec THEN rec[key] ELSE default

---------------------------------------------------------------------------
(* The connection and its populations (bindsnet.network, outside this      *)
(* file: only the attributes the learning rules read are held).            *)

IsDense(c) == c.type \in {"Connection", "LocalConnection"}
IsConv(c) == c.type = "Conv2dConnection"

\* connection.w.shape
Rows(c) == IF IsConv(c) THEN OutChannels ELSE SourceN
Cols(c) == IF IsConv(c) THEN InChannels * KernelW ELSE TargetN

\* A population tensor [batch_size, *population.shape] filled by u and v
PopBoard(c, nb, isSource, u, v) ==
    IF IsConv(c)
    THEN (IF isSource THEN Board3(nb, InChannels, SourceW, u, v)
                      ELSE Board3(nb, OutChannels, OutW, u, v))
    ELSE (IF isSource THEN Board2(nb, SourceN, u, v)
                      ELSE Board2(nb, TargetN, u, v))

\* torch.zeros(batch_size, *population.shape) for either population
ZerosPop(c, nb, isSource) == PopBoard(c, nb, isSource, Zero, Zero)

\* im2col_indices(x, kernel_height, kernel_width, padding, stride): the
\* unfold of x[b][c][p] into patches, cols[b][j][l] = x[b][c][l + k - 1]
\* for j = (c-1)*KernelW + k.
im2col_indices(x) ==
    [b \in DOMAIN x |->
        [j \in 1..(InChannels * KernelW) |->
            [l \in 1..OutW |->
                x[b][((j - 1) \div KernelW) + 1][l + ((j - 1) % KernelW)]]]]

---------------------------------------------------------------------------
(* Constructors. *)

\* The record rec with attribute key set to val (setattr).
With(rec, key, val) ==
    [k \in DOMAIN rec \cup {key} |-> IF k = key THEN val ELSE rec[k]]

\* kwargs.get defaults of the time constants
TcPlusDefault == 20
TcMinusDefault == 20
TcETraceDefault == 25
TcCDefault == 5
TcTraceDefault == 20
TcTraceNegDefault == 20

\* LearningRule.__init__ keeping a number as a one-entry list.
NuOf_unpaired(nu) ==
    IF nu.kind = "None" THEN <<Zero, Zero>>
    ELSE IF nu.kind = "scalar" THEN <<nu.val>>
    ELSE nu.val

\* LearningRule.__init__: nu is None, a number, or anything else (kept as given)
NuOf(nu) ==
    IF nu.kind = "None" THEN <<Zero, Zero>>
    ELSE IF nu.kind = "scalar" THEN <<nu.val, nu.val>>
    ELSE nu.val

LearningRule_init(a, c) ==
    [rule |-> a.rule,
     wmin |-> c.wmin,
     wmax |-> c.wmax,
     nu |-> NuOf(a.nu),
     reduction |-> IF a.reduction = "None" THEN "mean" ELSE a.reduction,
     weight_decay |-> a.weight_decay,
     post_spike_weight_decay |-> Get(a, "post_spike_weight_decay", Zero),
     update |-> "update"]

Ok(obj) == [raised |-> "none", self |-> obj]
Raise(exc, obj) == [raised |-> exc, self |-> obj]

\* The dispatch binding the dense path to every type that is not
\* convolutional, with no type left to reject.
BindUpdate_anytype(obj, c) ==
    IF IsConv(c) THEN Ok(With(obj, "update", "_conv2d_connection_update"))
    ELSE Ok(With(obj, "update", "_connection_update"))

\* The isinstance dispatch on the connection type that ends the constructors
\* of PostPre, WeightDependentPostPre, Hebbian, MSTDP and MSTDPET.
BindUpdate(obj, c) ==
    IF IsDense(c) THEN Ok(With(obj, "update", "_connection_update"))
    ELSE IF IsConv(c) THEN Ok(With(obj, "update", "_conv2d_connection_update"))
    ELSE Raise("NotImplementedError", obj)

NoOp_init(a, c, src, tgt) == Ok(LearningRule_init(a, c))

PostPre_init(a, c, src, tgt) ==
    LET obj == LearningRule_init(a, c)
    IN  IF ~(src.traces /\ tgt.traces) THEN Raise("AssertionError", obj)
        ELSE BindUpdate(obj, c)

WeightDependentPostPre_init(a, c, src, tgt) ==
    LET obj0 == LearningRule_init(a, c)
        obj1 == With(obj0, "tc_trace", Get(a, "tc_trace", <<TcTraceDefault, 1>>))
        obj  == With(obj1, "tc_trace_neg", Get(a, "tc_trace_neg", <<TcTraceNegDefault, 1>>))
    IN  IF ~src.traces THEN Raise("AssertionError", obj)
        ELSE IF ~(c.wmin # NegInf /\ c.wmax # PosInf) THEN Raise("AssertionError", obj)
        ELSE BindUpdate(obj, c)

Hebbian_init(a, c, src, tgt) ==
    LET obj == LearningRule_init(a, c)
    IN  IF ~(src.traces /\ tgt.traces) THEN Raise("AssertionError", obj)
        ELSE BindUpdate(obj, c)

MSTDP_init(a, c, src, tgt) ==
    LET obj == LearningRule_init(a, c)
        bound == BindUpdate(obj, c)
    IN  IF bound.raised # "none" THEN bound
        ELSE Ok(With(With(bound.self,
                "tc_plus", Get(a, "tc_plus", <<TcPlusDefault, 1>>)),
                "tc_minus", Get(a, "tc_minus", <<TcMinusDefault, 1>>)))

MSTDPET_init(a, c, src, tgt) ==
    LET obj == LearningRule_init(a, c)
        bound == BindUpdate(obj, c)
    IN  IF bound.raised # "none" THEN bound
        ELSE Ok(With(With(With(bound.self,
                "tc_plus", Get(a, "tc_plus", <<TcPlusDefault, 1>>)),
                "tc_minus", Get(a, "tc_minus", <<TcMinusDefault, 1>>)),
                "tc_e_trace", Get(a, "tc_e_trace", <<TcETraceDefault, 1>>)))

Rmax_init(a, c, src, tgt) ==
    LET obj == LearningRule_init(a, c)
    IN  IF ~(src.traces /\ src.traces_additive) THEN Raise("AssertionError", obj)
        ELSE IF tgt.class # "SRM0Nodes" THEN Raise("AssertionError", obj)
        ELSE IF IsDense(c)
        THEN Ok(With(With(With(obj, "update", "_connection_update"),
                "tc_c", Get(a, "tc_c", <<TcCDefault, 1>>)),
                "tc_e_trace", Get(a, "tc_e_trace", <<TcETraceDefault, 1>>)))
        ELSE Raise("NotImplementedError", obj)

\* rule = Rule(connection, nu=..., reduction=..., weight_decay=..., **kwargs)
Constructor(a, c, src, tgt) ==
    CASE a.rule = "NoOp" -> NoOp_init(a, c, src, tgt)
      [] a.rule = "PostPre" -> PostPre_init(a, c, src, tgt)
      [] a.rule = "WeightDependentPostPre" -> WeightDependentPostPre_init(a, c, src, tgt)
      [] a.rule = "Hebbian" -> Hebbian_init(a, c, src, tgt)
      [] a.rule = "MSTDP" -> MSTDP_init(a, c, src, tgt)
      [] a.rule = "MSTDPET" -> MSTDPET_init(a, c, src, tgt)
      [] a.rule = "Rmax" -> Rmax_init(a, c, src, tgt)

---------------------------------------------------------------------------
(* LearningRule.update and the rules without eligibility state. *)

\* What an update call leaves behind: the rule object, the weights, and the
\* exception it ended with ("none" when it returned).
Returned(obj, w) == [self |-> obj, w |-> w, raised |-> "none"]
Raised(exc, obj, w) == [self |-> obj, w |-> w, raised |-> exc]

\* self.nu[0] and self.nu[1]
Nu0(obj) == obj.nu[1]
Nu1(obj) == obj.nu[2]

\* Tensor.clamp_(min, max): min(max(x, lo), hi)
Clamp(x, lo, hi) ==
    LET y == IF Lt(x, lo) THEN lo ELSE x
    IN  IF Lt(hi, y) THEN hi ELSE y

\* LearningRule.update without its clamp: the weights only decay.
LearningRule_update_unclamped(obj, c, w) ==
    IF Truthy(obj.weight_decay)
    THEN MapM(w, LAMBDA x : Sub(x, Mul(obj.weight_decay, x)))
    ELSE w

\* LearningRule.update clamping for every rule, NoOp included.
LearningRule_update_clampall(obj, c, w) ==
    LET decayed == LearningRule_update_unclamped(obj, c, w)
    IN  IF c.wmin # NegInf \/ c.wmax # PosInf
        THEN MapM(decayed, LAMBDA x : Clamp(x, c.wmin, c.wmax))
        ELSE decayed

\* LearningRule.update clamping only when both bounds are finite.
LearningRule_update_bothfinite(obj, c, w) ==
    LET decayed == IF Truthy(obj.weight_decay)
                   THEN MapM(w, LAMBDA x : Sub(x, Mul(obj.weight_decay, x)))
                   ELSE w
    IN  IF (c.wmin # NegInf /\ c.wmax # PosInf) /\ obj.rule # "NoOp"
        THEN MapM(decayed, LAMBDA x : Clamp(x, c.wmin, c.wmax))
        ELSE decayed

\* LearningRule.update: weight decay, then the bounds.
LearningRule_update(obj, c, w) ==
    LET decayed == IF Truthy(obj.weight_decay)
                   THEN MapM(w, LAMBDA x : Sub(x, Mul(obj.weight_decay, x)))
                   ELSE w
    IN  IF (c.wmin # NegInf \/ c.wmax # PosInf) /\ obj.rule # "NoOp"
        THEN MapM(decayed, LAMBDA x : Clamp(x, c.wmin, c.wmax))
        ELSE decayed

NoOp_update(obj, c, src, tgt, kw) == Returned(obj, LearningRule_update(obj, c, c.w))

\* self.reduction(torch.bmm(a.unsqueeze(2), b.unsqueeze(1)), dim=0) of two
\* dense population tensors a[b][i] and b[b][k]
OuterDense(obj, src, a, b) ==
    Mat(SourceN, TargetN,
        LAMBDA i, k : Reduce(obj.reduction, src.batch_size,
                             LAMBDA n : Mul(a[n][i], b[n][k])))

\* self.reduction(torch.bmm(t, cols.permute((0, 2, 1))), dim=0).view(w.size())
\* of a target tensor t[b][o][l] and unfolded source patches cols[b][j][l]
OuterConv(obj, src, t, cols) ==
    Mat(OutChannels, InChannels * KernelW,
        LAMBDA o, j : Reduce(obj.reduction, src.batch_size,
                             LAMBDA n : SumTo(OutW, LAMBDA l : Mul(t[n][o][l], cols[n][j][l]))))

PostPre_connection_update(obj, c, src, tgt, kw) ==
    LET w1 == IF Truthy(Nu0(obj))
              THEN AddM(c.w, ScaleM(Neg(Nu0(obj)), OuterDense(obj, src, src.s, tgt.x)))
              ELSE c.w
    IN  IF Len(obj.nu) < 2 THEN Raised("IndexError", obj, w1)
        ELSE
        LET w2 == IF Truthy(Nu1(obj))
                  THEN AddM(w1, ScaleM(Nu1(obj), OuterDense(obj, src, src.x, tgt.s)))
                  ELSE w1
        IN  Returned(obj, LearningRule_update(obj, c, w2))

PostPre_conv2d_connection_update(obj, c, src, tgt, kw) ==
    LET source_x == im2col_indices(src.x)
        source_s == im2col_indices(src.s)
        w1 == IF Truthy(Nu0(obj))
              THEN AddM(c.w, ScaleM(Neg(Nu0(obj)), OuterConv(obj, src, tgt.x, source_s)))
              ELSE c.w
    IN  IF Len(obj.nu) < 2 THEN Raised("IndexError", obj, w1)
        ELSE
        LET w2 == IF Truthy(Nu1(obj))
                  THEN AddM(w1, ScaleM(Nu1(obj), OuterConv(obj, src, tgt.s, source_x)))
                  ELSE w1
        IN  Returned(obj, LearningRule_update(obj, c, w2))

\* Hebbian._connection_update with the pre-synaptic term subtracted, as
\* PostPre does.
Hebbian_connection_update_subtracting(obj, c, src, tgt, kw) ==
    LET w1 == AddM(c.w, ScaleM(Neg(Nu0(obj)), OuterDense(obj, src, src.s, tgt.x)))
        w2 == AddM(w1, ScaleM(Nu1(obj), OuterDense(obj, src, src.x, tgt.s)))
    IN  Returned(obj, LearningRule_update(obj, c, w2))

Hebbian_connection_update(obj, c, src, tgt, kw) ==
    LET w1 == AddM(c.w, ScaleM(Nu0(obj), OuterDense(obj, src, src.s, tgt.x)))
    IN  IF Len(obj.nu) < 2 THEN Raised("IndexError", obj, w1)
        ELSE
        LET w2 == AddM(w1, ScaleM(Nu1(obj), OuterDense(obj, src, src.x, tgt.s)))
        IN  Returned(obj, LearningRule_update(obj, c, w2))

Hebbian_conv2d_connection_update(obj, c, src, tgt, kw) ==
    LET source_x == im2col_indices(src.x)
        source_s == im2col_indices(src.s)
        w1 == AddM(c.w, ScaleM(Nu0(obj), OuterConv(obj, src, tgt.x, source_s)))
    IN  IF Len(obj.nu) < 2 THEN Raised("IndexError", obj, w1)
        ELSE
        LET w2 == AddM(w1, ScaleM(Nu1(obj), OuterConv(obj, src, tgt.s, source_x)))
        IN  Returned(obj, LearningRule_update(obj, c, w2))

---------------------------------------------------------------------------
(* WeightDependentPostPre. *)

\* self.STDP_base = torch.zeros([101, 120]), filled from STDP.txt
TableRows == 101
TableCols == 120
\* second_index = delta + 60, kept when it lies in [0, 120]
DeltaOffset == 60
DeltaMax == 120

\* self.STDP_base[i][k] (i, k counted from 0).  The numbers of STDP.txt are
\* not part of the sources: the entries are taken pairwise distinct, so that
\* the value a lookup returns tells the entry that was read.
STDP_base(i, k) == R(1 + i * TableCols + k, 200000)

Floor(a) == a[1] \div a[2]

\* Python's round(float): to the nearest integer, a tie to the even one
Round(a) ==
    LET f == Floor(a)
        twice == 2 * (a[1] - f * a[2])
    IN  IF twice < a[2] THEN f
        ELSE IF twice > a[2] THEN f + 1
        ELSE IF f % 2 = 0 THEN f ELSE f + 1

\* The first entry, in row-major order, of a matrix of exception names that
\* is not "none".
FirstError(errs) ==
    LET n == Len(errs)
        m == Len(errs[1])
        At(q) == errs[((q - 1) \div m) + 1][((q - 1) % m) + 1]
        bad == {q \in 1..(n * m) : At(q) # "none"}
    IN  IF bad = {} THEN "none"
        ELSE At(CHOOSE q \in bad : \A q2 \in bad : q <= q2)

\* One entry of round_to_percent: int(round(float(w / nu[0] * 100))), sign dropped
PercentError(x, nu0) ==
    LET v == Mul(Div(x, nu0), <<100, 1>>)
    IN  IF IsNaN(v) THEN "ValueError"
        ELSE IF ~IsFinite(v) THEN "OverflowError"
        ELSE "none"

round_to_percent(x, nu0) == Abs(Round(Mul(Div(x, nu0), <<100, 1>>)))

\* The range test of delta_w_custom moving an index that is out of range to
\* the nearest column of the table instead of column 0.
SecondIndex_saturating(delta) ==
    LET second_index == Add(delta, <<DeltaOffset, 1>>)
    IN  IF Lt(<<DeltaMax, 1>>, second_index) THEN <<TableCols - 1, 1>>
        ELSE IF Lt(second_index, Zero) THEN Zero
        ELSE second_index

\* The range test of delta_w_custom sending a NaN index to column 0 as well.
SecondIndex_nanzero(delta) ==
    LET second_index == Add(delta, <<DeltaOffset, 1>>)
    IN  IF IsNaN(second_index) \/ Lt(<<DeltaMax, 1>>, second_index)
           \/ Lt(second_index, Zero)
        THEN Zero
        ELSE second_index

\* The range test of delta_w_custom on an index rounded to the nearest
\* integer.
SecondIndex_rounding(delta) ==
    LET second_index == Add(delta, <<DeltaOffset, 1>>)
    IN  IF Lt(<<DeltaMax, 1>>, second_index) \/ Lt(second_index, Zero)
        THEN Zero
        ELSE IF IsFinite(second_index) THEN <<Round(second_index), 1>>
        ELSE second_index

\* One entry of delta_w_custom: the column read for delta, after the range test
SecondIndex(delta) ==
    LET second_index == Add(delta, <<DeltaOffset, 1>>)
    IN  IF Lt(<<DeltaMax, 1>>, second_index) \/ Lt(second_index, Zero)
        THEN Zero
        ELSE second_index

\* int(second_index): NaN raises, a number is cut towards zero; then the read
\* self.STDP_base[first_index][second_index] raises when an index is outside
\* the table
LookupError(first_index, delta) ==
    LET second_index == SecondIndex(delta)
    IN  IF IsNaN(second_index) THEN "ValueError"
        ELSE IF first_index >= TableRows \/ Floor(second_index) >= TableCols
        THEN "IndexError"
        ELSE "none"

\* delta_w_custom(delta): [raised, value], value the matrix of table entries
delta_w_custom(obj, c, delta) ==
    LET nu0 == Nu0(obj)
        e1 == FirstError(MapM(c.w, LAMBDA x : PercentError(x, nu0)))
    IN  IF e1 # "none" THEN [raised |-> e1, value |-> delta]
        ELSE
        LET e2 == FirstError(ZipM(c.w, delta,
                        LAMBDA x, d : LookupError(round_to_percent(x, nu0), d)))
        IN  IF e2 # "none" THEN [raised |-> e2, value |-> delta]
            ELSE [raised |-> "none",
                  value |-> ZipM(c.w, delta,
                        LAMBDA x, d : STDP_base(round_to_percent(x, nu0),
                                                Floor(SecondIndex(d))))]

WeightDependentPostPre_connection_update(obj, c, src, tgt, kw) ==
    LET pre == delta_w_custom(obj, c,
                   MapM(OuterDense(obj, src, src.s, tgt.x_neg),
                        LAMBDA p : Mul(obj.tc_trace_neg, Log(p))))
    IN  IF pre.raised # "none" THEN Raised(pre.raised, obj, c.w)
        ELSE IF Len(obj.nu) < 2 THEN Raised("IndexError", obj, c.w)
        ELSE
        LET post == delta_w_custom(obj, c,
                        MapM(OuterDense(obj, src, src.x, tgt.s),
                             LAMBDA p : Mul(Neg(obj.tc_trace), Log(p))))
        IN  IF post.raised # "none" THEN Raised(post.raised, obj, c.w)
            ELSE
            LET ones == [b \in 1..src.batch_size |-> [i \in 1..SourceN |-> One]]
                rate == OuterDense(obj, src, ones, tgt.s)
                update == Mat(SourceN, TargetN,
                    LAMBDA i, k :
                        Add(Add(Mul(Nu0(obj), pre.value[i][k]),
                                Mul(Nu1(obj), post.value[i][k])),
                            Mul(Mul(Neg(obj.post_spike_weight_decay), c.w[i][k]), rate[i][k])))
            IN  Returned(obj, LearningRule_update(obj, c, AddM(c.w, update)))

WeightDependentPostPre_conv2d_connection_update(obj, c, src, tgt, kw) ==
    LET source_x == im2col_indices(src.x)
        source_s == im2col_indices(src.s)
        pre == OuterConv(obj, src, tgt.x, source_s)
        u1 == IF Truthy(Nu0(obj))
              THEN ZipM(pre, c.w, LAMBDA p, x : Neg(Mul(Mul(Nu0(obj), p), Sub(x, obj.wmin))))
              ELSE ZerosM(OutChannels, InChannels * KernelW)
    IN  IF Len(obj.nu) < 2 THEN Raised("IndexError", obj, c.w)
        ELSE
        LET post == OuterConv(obj, src, tgt.s, source_x)
            u2 == IF Truthy(Nu1(obj))
                  THEN AddM(u1, MapM(post,
                            LAMBDA p : Mul(Mul(Nu1(obj), p), Sub(obj.wmax, c.wmin))))
                  ELSE u1
        IN  Returned(obj, LearningRule_update(obj, c, AddM(c.w, u2)))

---------------------------------------------------------------------------
(* The reward-modulated rules.  Their state tensors are held with their    *)
(* shape: [shape |-> <<...>>, data |-> nested sequences].                  *)

T(shape, data) == [shape |-> shape, data |-> data]

\* connection.w.shape, source.shape and target.shape
WShape(c) == IF IsConv(c) THEN <<OutChannels, InChannels, 1, KernelW>> ELSE <<SourceN, TargetN>>
SourceShape(c) == IF IsConv(c) THEN <<InChannels, 1, SourceW>> ELSE <<SourceN>>
TargetShape(c) == IF IsConv(c) THEN <<OutChannels, 1, OutW>> ELSE <<TargetN>>

\* if not hasattr(self, name): self.name = value
Ensure(obj, name, value) == IF name \in DOMAIN obj THEN obj ELSE With(obj, name, value)

\* torch.exp(-self.connection.dt / tc)
Decay(c, tc) == Exp(Neg(Div(c.dt, tc)))

\* kwargs.get("a_plus", 1.0) and kwargs.get("a_minus", -1.0)
APlus(kw) == Get(kw, "a_plus", One)
AMinus(kw) == Get(kw, "a_minus", Neg(One))

\* The accumulator step without its decay: p += a * s only.
StepP2_undecayed(p, decay, a, sp) == ZipM(p, sp, LAMBDA x, y : Add(x, Mul(a, y)))

\* p *= decay; p += a * s, for tensors p[b][i] and s[b][i]
StepP2(p, decay, a, sp) == ZipM(p, sp, LAMBDA x, y : Add(Mul(x, decay), Mul(a, y)))

\* the same for tensors p[b][j][l]
StepP3(p, decay, a, sp) ==
    [b \in DOMAIN p |-> ZipM(p[b], sp[b], LAMBDA x, y : Add(Mul(x, decay), Mul(a, y)))]

\* torch.bmm(t, cols.permute((0, 2, 1))) + torch.bmm(pm, ss.permute((0, 2, 1)))
EligConv(nb, target_s, p_plus, p_minus, source_s) ==
    Ten3(nb, OutChannels, InChannels * KernelW,
         LAMBDA b, o, j :
            SumTo(OutW, LAMBDA l : Add(Mul(target_s[b][o][l], p_plus[b][j][l]),
                                       Mul(p_minus[b][o][l], source_s[b][j][l]))))

\* MSTDP._connection_update missing the reward only after p_plus has taken
\* the spikes of the call.
MSTDP_connection_update_latecheck(obj, c, src, tgt, kw) ==
    LET nb == src.batch_size
        o1 == Ensure(obj, "p_plus", T(<<nb>> \o SourceShape(c), ZerosM(nb, SourceN)))
        o2 == Ensure(o1, "p_minus", T(<<nb>> \o TargetShape(c), ZerosM(nb, TargetN)))
        o3 == Ensure(o2, "eligibility",
                     T(<<nb>> \o WShape(c), Ten3(nb, SourceN, TargetN, LAMBDA b, i, k : Zero)))
    IN  IF "reward" \notin DOMAIN kw
        THEN Raised("KeyError",
                    [o3 EXCEPT !.p_plus.data =
                        StepP2(o3.p_plus.data, Decay(c, obj.tc_plus), APlus(kw), src.s)],
                    c.w)
        ELSE
        LET reward == kw.reward
            elig == o3.eligibility.data
            \* the point eligibility of the past time step
            w1 == Mat(SourceN, TargetN,
                      LAMBDA i, k : Add(c.w[i][k],
                          Mul(Nu0(obj), Reduce(obj.reduction, nb,
                                               LAMBDA b : Mul(reward, elig[b][i][k])))))
            p_plus == StepP2(o3.p_plus.data, Decay(c, obj.tc_plus), APlus(kw), src.s)
            p_minus == StepP2(o3.p_minus.data, Decay(c, obj.tc_minus), AMinus(kw), tgt.s)
            eligibility == Ten3(nb, SourceN, TargetN,
                                LAMBDA b, i, k : Add(Mul(p_plus[b][i], tgt.s[b][k]),
                                                     Mul(src.s[b][i], p_minus[b][k])))
            o4 == [o3 EXCEPT !.p_plus.data = p_plus, !.p_minus.data = p_minus,
                             !.eligibility = T(<<nb, SourceN, TargetN>>, eligibility)]
        IN  Returned(o4, LearningRule_update(obj, c, w1))

MSTDP_connection_update(obj, c, src, tgt, kw) ==
    LET nb == src.batch_size
        o1 == Ensure(obj, "p_plus", T(<<nb>> \o SourceShape(c), ZerosM(nb, SourceN)))
        o2 == Ensure(o1, "p_minus", T(<<nb>> \o TargetShape(c), ZerosM(nb, TargetN)))
        o3 == Ensure(o2, "eligibility",
                     T(<<nb>> \o WShape(c), Ten3(nb, SourceN, TargetN, LAMBDA b, i, k : Zero)))
    IN  IF "reward" \notin DOMAIN kw THEN Raised("KeyError", o3, c.w)
        ELSE
        LET reward == kw.reward
            elig == o3.eligibility.data
            \* the point eligibility of the past time step
            w1 == Mat(SourceN, TargetN,
                      LAMBDA i, k : Add(c.w[i][k],
                          Mul(Nu0(obj), Reduce(obj.reduction, nb,
                                               LAMBDA b : Mul(reward, elig[b][i][k])))))
            p_plus == StepP2(o3.p_plus.data, Decay(c, obj.tc_plus), APlus(kw), src.s)
            p_minus == StepP2(o3.p_minus.data, Decay(c, obj.tc_minus), AMinus(kw), tgt.s)
            eligibility == Ten3(nb, SourceN, TargetN,
                                LAMBDA b, i, k : Add(Mul(p_plus[b][i], tgt.s[b][k]),
                                                     Mul(src.s[b][i], p_minus[b][k])))
            o4 == [o3 EXCEPT !.p_plus.data = p_plus, !.p_minus.data = p_minus,
                             !.eligibility = T(<<nb, SourceN, TargetN>>, eligibility)]
        IN  Returned(o4, LearningRule_update(obj, c, w1))

MSTDP_conv2d_connection_update(obj, c, src, tgt, kw) ==
    LET nb == src.batch_size
        nj == InChannels * KernelW
        o1 == Ensure(obj, "eligibility",
                     T(<<nb>> \o WShape(c), Ten3(nb, OutChannels, nj, LAMBDA b, o, j : Zero)))
    IN  IF "reward" \notin DOMAIN kw THEN Raised("KeyError", o1, c.w)
        ELSE
        LET reward == kw.reward
            elig == o1.eligibility
            \* torch.sum(reward * self.eligibility, dim=0): over the batch axis
            \* when the eligibility has one, else over its first axis
            \* (out_channels), the result broadcast over the kernel's rows
            w1 == IF elig.shape = <<nb>> \o WShape(c)
                  THEN Mat(OutChannels, nj,
                           LAMBDA o, j : Add(c.w[o][j],
                               Mul(Nu0(obj), SumTo(nb, LAMBDA b : Mul(reward, elig.data[b][o][j])))))
                  ELSE Mat(OutChannels, nj,
                           LAMBDA o, j : Add(c.w[o][j],
                               Mul(Nu0(obj), SumTo(OutChannels,
                                                   LAMBDA q : Mul(reward, elig.data[q][j])))))
            o2 == Ensure(o1, "p_plus",
                         T(<<nb, nj, OutW>>, im2col_indices(ZerosPop(c, nb, TRUE))))
            o3 == Ensure(o2, "p_minus", T(<<nb, OutChannels, OutW>>, ZerosPop(c, nb, FALSE)))
            source_s == im2col_indices(src.s)
            target_s == tgt.s
            p_plus == StepP3(o3.p_plus.data, Decay(c, obj.tc_plus), APlus(kw), source_s)
            p_minus == StepP3(o3.p_minus.data, Decay(c, obj.tc_minus), AMinus(kw), target_s)
            eligibility == EligConv(nb, target_s, p_plus, p_minus, source_s)
            o4 == [o3 EXCEPT !.p_plus.data = p_plus, !.p_minus.data = p_minus]
        IN  \* self.eligibility.view(self.connection.w.size()): the batch axis
            \* is dropped, which only a batch of one allows
            IF nb # 1
            THEN Raised("RuntimeError",
                        [o4 EXCEPT !.eligibility = T(<<nb, OutChannels, nj>>, eligibility)], w1)
            ELSE Returned([o4 EXCEPT !.eligibility = T(WShape(c), eligibility[1])],
                          LearningRule_update(obj, c, w1))

\* x.view(-1) of a dense population tensor x[b][i]: entry (b-1)*n + i
ViewFlat(x, n) == [m \in 1..(Len(x) * n) |-> x[((m - 1) \div n) + 1][((m - 1) % n) + 1]]

\* MSTDPET._connection_update with the point eligibility scaled by the
\* reward of the call.
MSTDPET_connection_update_rewarded(obj, c, src, tgt, kw) ==
    LET nb == src.batch_size
        zeros == ZerosM(SourceN, TargetN)
        o1 == Ensure(obj, "p_plus", T(<<SourceN>>, [i \in 1..SourceN |-> Zero]))
        o2 == Ensure(o1, "p_minus", T(<<TargetN>>, [k \in 1..TargetN |-> Zero]))
        o3 == Ensure(o2, "eligibility", T(WShape(c), zeros))
        o4 == Ensure(o3, "eligibility_trace", T(WShape(c), zeros))
        source_s == ViewFlat(src.s, SourceN)
        target_s == ViewFlat(tgt.s, TargetN)
    IN  IF "reward" \notin DOMAIN kw THEN Raised("KeyError", o4, c.w)
        ELSE
        LET reward == kw.reward
            \* the eligibility trace, from the point eligibility of the past time step
            trace == ZipM(o4.eligibility_trace.data, o4.eligibility.data,
                          LAMBDA e, p : Add(Mul(e, Decay(c, obj.tc_e_trace)),
                                            Div(p, obj.tc_e_trace)))
            w1 == ZipM(c.w, trace,
                       LAMBDA x, e : Add(x, Mul(Mul(Mul(Nu0(obj), c.dt), reward), e)))
            o5 == [o4 EXCEPT !.eligibility_trace.data = trace]
            decayed == [i \in 1..SourceN |-> Mul(o4.p_plus.data[i], Decay(c, obj.tc_plus))]
        IN  \* self.p_plus += a_plus * source_s: source_s has batch_size *
            \* source.n entries, self.p_plus has source.n
            IF nb # 1
            THEN Raised("RuntimeError", [o5 EXCEPT !.p_plus.data = decayed], w1)
            ELSE
            LET p_plus == [i \in 1..SourceN |-> Add(decayed[i], Mul(APlus(kw), source_s[i]))]
                p_minus == [k \in 1..TargetN |->
                               Add(Mul(o4.p_minus.data[k], Decay(c, obj.tc_minus)),
                                   Mul(AMinus(kw), target_s[k]))]
                \* torch.ger(self.p_plus, target_s) + torch.ger(source_s, self.p_minus)
                eligibility == Mat(SourceN, TargetN,
                                   LAMBDA i, k : Mul(reward,
                                                     Add(Mul(p_plus[i], target_s[k]),
                                                         Mul(source_s[i], p_minus[k]))))
                o6 == [o5 EXCEPT !.p_plus.data = p_plus, !.p_minus.data = p_minus,
                                 !.eligibility.data = eligibility]
            IN  Returned(o6, LearningRule_update(obj, c, w1))

MSTDPET_connection_update(obj, c, src, tgt, kw) ==
    LET nb == src.batch_size
        zeros == ZerosM(SourceN, TargetN)
        o1 == Ensure(obj, "p_plus", T(<<SourceN>>, [i \in 1..SourceN |-> Zero]))
        o2 == Ensure(o1, "p_minus", T(<<TargetN>>, [k \in 1..TargetN |-> Zero]))
        o3 == Ensure(o2, "eligibility", T(WShape(c), zeros))
        o4 == Ensure(o3, "eligibility_trace", T(WShape(c), zeros))
        source_s == ViewFlat(src.s, SourceN)
        target_s == ViewFlat(tgt.s, TargetN)
    IN  IF "reward" \notin DOMAIN kw THEN Raised("KeyError", o4, c.w)
        ELSE
        LET reward == kw.reward
            \* the eligibility trace, from the point eligibility of the past time step
            trace == ZipM(o4.eligibility_trace.data, o4.eligibility.data,
                          LAMBDA e, p : Add(Mul(e, Decay(c, obj.tc_e_trace)),
                                            Div(p, obj.tc_e_trace)))
            w1 == ZipM(c.w, trace,
                       LAMBDA x, e : Add(x, Mul(Mul(Mul(Nu0(obj), c.dt), reward), e)))
            o5 == [o4 EXCEPT !.eligibility_trace.data = trace]
            decayed == [i \in 1..SourceN |-> Mul(o4.p_plus.data[i], Decay(c, obj.tc_plus))]
        IN  \* self.p_plus += a_plus * source_s: source_s has batch_size *
            \* source.n entries, self.p_plus has source.n
            IF nb # 1
            THEN Raised("RuntimeError", [o5 EXCEPT !.p_plus.data = decayed], w1)
            ELSE
            LET p_plus == [i \in 1..SourceN |-> Add(decayed[i], Mul(APlus(kw), source_s[i]))]
                p_minus == [k \in 1..TargetN |->
                               Add(Mul(o4.p_minus.data[k], Decay(c, obj.tc_minus)),
                                   Mul(AMinus(kw), target_s[k]))]
                \* torch.ger(self.p_plus, target_s) + torch.ger(source_s, self.p_minus)
                eligibility == Mat(SourceN, TargetN,
                                   LAMBDA i, k : Add(Mul(p_plus[i], target_s[k]),
                                                     Mul(source_s[i], p_minus[k])))
                o6 == [o5 EXCEPT !.p_plus.data = p_plus, !.p_minus.data = p_minus,
                                 !.eligibility.data = eligibility]
            IN  Returned(o6, LearningRule_update(obj, c, w1))

\* self.target.s.permute(1, 2, 3, 0).view(batch_size, out_channels, -1) of
\* t[b][o][l].  The permuted tensor is contiguous only for a batch of one.
\* Otherwise torch can view it when the batch axis (stride out_channels *
\* OutW) covers a suffix of the new shape, i.e. when batch_size is OutW or
\* out_channels * OutW, and the entries come out rearranged; else it raises.
PermuteViewOk(nb) ==
    nb = 1 \/ OutChannels * OutW = 1 \/ nb = OutW \/ nb = OutChannels * OutW

PermuteView(t, nb) ==
    LET SrcAt(b, m) == t[b][((m - 1) \div OutW) + 1][((m - 1) % OutW) + 1]
    IN  IF nb = 1 \/ OutChannels * OutW = 1 THEN t
        ELSE IF nb = OutChannels * OutW
        THEN Ten3(nb, OutChannels, OutW, LAMBDA b, o, l : SrcAt((o - 1) * OutW + l, b))
        ELSE Ten3(nb, OutChannels, OutW, LAMBDA b, o, l : SrcAt(l, (b - 1) * OutChannels + o))

MSTDPET_conv2d_connection_update(obj, c, src, tgt, kw) ==
    LET nb == src.batch_size
        nj == InChannels * KernelW
        zeros == Ten3(nb, OutChannels, nj, LAMBDA b, o, j : Zero)
        o1 == Ensure(obj, "eligibility", T(<<nb>> \o WShape(c), zeros))
        o2 == Ensure(o1, "eligibility_trace", T(<<nb>> \o WShape(c), zeros))
    IN  IF "reward" \notin DOMAIN kw THEN Raised("KeyError", o2, c.w)
        ELSE
        LET reward == kw.reward
            \* self.eligibility_trace *= torch.exp(-dt / tc_e_trace), and no more
            trace == [b \in 1..nb |->
                         MapM(o2.eligibility_trace.data[b],
                              LAMBDA e : Mul(e, Decay(c, obj.tc_e_trace)))]
            w1 == Mat(OutChannels, nj,
                      LAMBDA o, j : Add(c.w[o][j],
                          Mul(Mul(Nu0(obj), c.dt),
                              SumTo(nb, LAMBDA b : Mul(reward, trace[b][o][j])))))
            o3 == [o2 EXCEPT !.eligibility_trace.data = trace]
            o4 == Ensure(o3, "p_plus",
                         T(<<nb, nj, OutW>>, im2col_indices(ZerosPop(c, nb, TRUE))))
            o5 == Ensure(o4, "p_minus", T(<<nb, OutChannels, OutW>>, ZerosPop(c, nb, FALSE)))
        IN  IF ~PermuteViewOk(nb) THEN Raised("RuntimeError", o5, w1)
            ELSE
            LET source_s == im2col_indices(src.s)
                target_s == PermuteView(tgt.s, nb)
                p_plus == StepP3(o5.p_plus.data, Decay(c, obj.tc_plus), APlus(kw), source_s)
                p_minus == StepP3(o5.p_minus.data, Decay(c, obj.tc_minus), AMinus(kw), target_s)
                eligibility == EligConv(nb, target_s, p_plus, p_minus, source_s)
                o6 == [o5 EXCEPT !.p_plus.data = p_plus, !.p_minus.data = p_minus]
            IN  IF nb # 1
                THEN Raised("RuntimeError",
                            [o6 EXCEPT !.eligibility = T(<<nb, OutChannels, nj>>, eligibility)], w1)
                ELSE Returned([o6 EXCEPT !.eligibility = T(WShape(c), eligibility[1])],
                              LearningRule_update(obj, c, w1))

\* Rmax._connection_update reading the reward with a default of zero
\* (kwargs.get("reward", 0.0)) instead of requiring it.
Rmax_connection_update_defaulting(obj, c, src, tgt, kw) ==
    LET nb == src.batch_size
        o1 == Ensure(obj, "eligibility_trace", T(WShape(c), ZerosM(SourceN, TargetN)))
        target_s == ViewFlat(tgt.s, TargetN)
        target_s_prob == ViewFlat(tgt.s_prob, TargetN)
        source_x == ViewFlat(src.x, SourceN)
    IN  IF FALSE THEN Raised("KeyError", o1, c.w)
        ELSE
        LET reward == Get(kw, "reward", Zero)
            decayed == MapM(o1.eligibility_trace.data,
                            LAMBDA e : Mul(e, Sub(One, Div(c.dt, obj.tc_e_trace))))
        IN  \* the term added has shape [batch_size * source.n, batch_size * target.n]
            IF nb # 1
            THEN Raised("RuntimeError", [o1 EXCEPT !.eligibility_trace.data = decayed], c.w)
            ELSE
            LET trace == Mat(SourceN, TargetN,
                    LAMBDA i, k :
                        Add(decayed[i][k],
                            Mul(Sub(target_s[k],
                                    Div(target_s_prob[k],
                                        Add(One, Mul(Div(obj.tc_c, c.dt), target_s_prob[k])))),
                                source_x[i])))
                w1 == ZipM(c.w, trace, LAMBDA x, e : Add(x, Mul(Mul(Nu0(obj), reward), e)))
            IN  Returned([o1 EXCEPT !.eligibility_trace.data = trace],
                         LearningRule_update(obj, c, w1))

Rmax_connection_update(obj, c, src, tgt, kw) ==
    LET nb == src.batch_size
        o1 == Ensure(obj, "eligibility_trace", T(WShape(c), ZerosM(SourceN, TargetN)))
        target_s == ViewFlat(tgt.s, TargetN)
        target_s_prob == ViewFlat(tgt.s_prob, TargetN)
        source_x == ViewFlat(src.x, SourceN)
    IN  IF "reward" \notin DOMAIN kw THEN Raised("KeyError", o1, c.w)
        ELSE
        LET reward == kw.reward
            decayed == MapM(o1.eligibility_trace.data,
                            LAMBDA e : Mul(e, Sub(One, Div(c.dt, obj.tc_e_trace))))
        IN  \* the term added has shape [batch_size * source.n, batch_size * target.n]
            IF nb # 1
            THEN Raised("RuntimeError", [o1 EXCEPT !.eligibility_trace.data = decayed], c.w)
            ELSE
            LET trace == Mat(SourceN, TargetN,
                    LAMBDA i, k :
                        Add(decayed[i][k],
                            Mul(Sub(target_s[k],
                                    Div(target_s_prob[k],
                                        Add(One, Mul(Div(obj.tc_c, c.dt), target_s_prob[k])))),
                                source_x[i])))
                w1 == ZipM(c.w, trace, LAMBDA x, e : Add(x, Mul(Mul(Nu0(obj), reward), e)))
            IN  Returned([o1 EXCEPT !.eligibility_trace.data = trace],
                         LearningRule_update(obj, c, w1))

---------------------------------------------------------------------------
(* The state machine. *)

\* rule.update(**kwargs): the method bound at construction
Call(obj, c, src, tgt, kw) ==
    CASE obj.rule = "NoOp" -> NoOp_update(obj, c, src, tgt, kw)
      [] obj.rule = "PostPre" /\ obj.update = "_connection_update" ->
            PostPre_connection_update(obj, c, src, tgt, kw)
      [] obj.rule = "PostPre" /\ obj.update = "_conv2d_connection_update" ->
            PostPre_conv2d_connection_update(obj, c, src, tgt, kw)
      [] obj.rule = "WeightDependentPostPre" /\ obj.update = "_connection_update" ->
            WeightDependentPostPre_connection_update(obj, c, src, tgt, kw)
      [] obj.rule = "WeightDependentPostPre" /\ obj.update = "_conv2d_connection_update" ->
            WeightDependentPostPre_conv2d_connection_update(obj, c, src, tgt, kw)
      [] obj.rule = "Hebbian" /\ obj.update = "_connection_update" ->
            Hebbian_connection_update(obj, c, src, tgt, kw)
      [] obj.rule = "Hebbian" /\ obj.update = "_conv2d_connection_update" ->
            Hebbian_conv2d_connection_update(obj, c, src, tgt, kw)
      [] obj.rule = "MSTDP" /\ obj.update = "_connection_update" ->
            MSTDP_connection_update(obj, c, src, tgt, kw)
      [] obj.rule = "MSTDP" /\ obj.update = "_conv2d_connection_update" ->
            MSTDP_conv2d_connection_update(obj, c, src, tgt, kw)
      [] obj.rule = "MSTDPET" /\ obj.update = "_connection_update" ->
            MSTDPET_connection_update(obj, c, src, tgt, kw)
      [] obj.rule = "MSTDPET" /\ obj.update = "_conv2d_connection_update" ->
            MSTDPET_conv2d_connection_update(obj, c, src, tgt, kw)
      [] obj.rule = "Rmax" -> Rmax_connection_update(obj, c, src, tgt, kw)

\* No keyword arguments.
NoKw == <<>>

Half == <<1, 2>>

\* What the populations hold in one time step and the keyword arguments of
\* the update call that follows: the inputs of one step.  Each tensor is given
\* by the two values <<u, v>> PopBoard fills it with; the sets are chosen by
\* the rule that reads them, and a tensor the rule never reads stays zero.
ZZ == <<Zero, Zero>>

In(ss, sx, ts, tx, txn, tp, kw) ==
    [ss |-> ss, sx |-> sx, ts |-> ts, tx |-> tx, txn |-> txn, tp |-> tp, kw |-> kw]

\* <<spikes, trace>> of a population: quiet, firing, partly firing, silent
\* with a trace left
PopStates ==
    {<<ZZ, ZZ>>, <<<<One, One>>, <<One, One>>>>,
     <<<<One, Zero>>, <<One, Half>>>>, <<ZZ, <<Half, Half>>>>}

SpikePairs == {ZZ, <<One, One>>, <<One, Zero>>}

RewardKw == {NoKw, [reward |-> One], [reward |-> Neg(One), a_plus |-> <<2, 1>>]}

\* Traces of WeightDependentPostPre: 1 and exp(-t / 100) for t = 65, 61 and
\* 50 (with time constants of 100 they give the deltas -65, -61, -50 before
\* a pre-synaptic spike and 65, 61, 50 after a post-synaptic one), and a
\* negative value.
WDTraces == {One, Exp(<<-65, 100>>), Exp(<<-61, 100>>), Exp(<<-50, 100>>), Neg(One)}

Inputs(obj) ==
    CASE obj.rule = "NoOp" ->
            {In(ss, ZZ, ZZ, ZZ, ZZ, ZZ, kw) :
                ss \in {ZZ, <<One, One>>}, kw \in {NoKw, [reward |-> One]}}
      [] obj.rule = "WeightDependentPostPre" /\ obj.update = "_connection_update" ->
            {In(ZZ, ZZ, ZZ, ZZ, ZZ, ZZ, NoKw)}
                \cup {In(<<One, Zero>>, <<x, x>>, <<One, One>>, <<x, x>>, <<x, x>>, ZZ, NoKw) :
                            x \in WDTraces}
      [] obj.rule \in {"PostPre", "Hebbian"}
            \/ (obj.rule = "WeightDependentPostPre" /\ obj.update # "_connection_update") ->
            {In(sp[1], sp[2], tp[1], tp[2], ZZ, ZZ, NoKw) :
                sp \in PopStates, tp \in PopStates}
      [] obj.rule \in {"MSTDP", "MSTDPET"} ->
            {In(ss, ZZ, ts, ZZ, ZZ, ZZ, kw) :
                ss \in {ZZ, <<One, Zero>>}, ts \in SpikePairs, kw \in RewardKw}
      [] obj.rule = "Rmax" ->
            {In(ZZ, sx, tp[1], ZZ, ZZ, tp[2], kw) :
                sx \in {ZZ, <<One, Half>>},
                tp \in {<<ZZ, <<Half, Half>>>>, <<<<One, One>>, <<Half, Half>>>>,
                        <<<<One, Zero>>, <<One, Zero>>>>},
                kw \in {NoKw, [reward |-> One], [reward |-> Neg(One)]}}

\* The configurations behaviours start from: the constructor's arguments, the
\* connection and the two populations.
Cfg(rule, type, bounds, w, nu, reduction, weight_decay, batch) ==
    [rule |-> rule, type |-> type, wmin |-> bounds[1], wmax |-> bounds[2], w |-> w,
     nu |-> nu, reduction |-> reduction, weight_decay |-> weight_decay, batch |-> batch,
     straces |-> TRUE, sadditive |-> TRUE, ttraces |-> TRUE, tclass |-> "SRM0Nodes"]

Scalar(v) == [kind |-> "scalar", val |-> v]
Seq2(a, b) == [kind |-> "seq", val |-> <<a, b>>]
NuNone == [kind |-> "None"]

Rules == {"NoOp", "PostPre", "WeightDependentPostPre", "Hebbian", "MSTDP", "MSTDPET", "Rmax"}
Types == {"Connection", "LocalConnection", "Conv2dConnection", "SparseConnection"}
Unbounded == <<NegInf, PosInf>>
UnitBounds == <<Zero, One>>

\* cfg with the fields of rec added or replaced (keyword arguments of the
\* constructor, flags of the populations)
Extra(cfg, rec) ==
    [k \in DOMAIN cfg \cup DOMAIN rec |-> IF k \in DOMAIN rec THEN rec[k] ELSE cfg[k]]

\* Time constants with short decay factors: exp(-dt / tc) is 1/2 for 3/2 and
\* 3/5 for 2.
SmallTc == [tc_plus |-> <<3, 2>>, tc_minus |-> <<3, 2>>, tc_e_trace |-> <<2, 1>>]

InitOver(cfgs) ==
    \E cfg \in cfgs :
        LET c0 == [type |-> cfg.type, wmin |-> cfg.wmin, wmax |-> cfg.wmax, dt |-> One]
            opt == {"post_spike_weight_decay", "tc_plus", "tc_minus", "tc_e_trace",
                    "tc_c", "tc_trace", "tc_trace_neg"} \cap DOMAIN cfg
        IN  /\ pc = "new"
            /\ args = [k \in {"rule", "nu", "reduction", "weight_decay"} \cup opt |-> cfg[k]]
            /\ self = [rule |-> cfg.rule]
            /\ connection = [type |-> cfg.type, wmin |-> cfg.wmin, wmax |-> cfg.wmax,
                             dt |-> One,
                             w |-> Board2(Rows(c0), Cols(c0), cfg.w[1], cfg.w[2])]
            /\ source = [traces |-> cfg.straces, traces_additive |-> cfg.sadditive,
                         batch_size |-> cfg.batch,
                         s |-> ZerosPop(c0, cfg.batch, TRUE),
                         x |-> ZerosPop(c0, cfg.batch, TRUE)]
            /\ target = [class |-> cfg.tclass, traces |-> cfg.ttraces,
                         s |-> ZerosPop(c0, cfg.batch, FALSE),
                         x |-> ZerosPop(c0, cfg.batch, FALSE),
                         x_neg |-> ZerosPop(c0, cfg.batch, FALSE),
                         s_prob |-> ZerosPop(c0, cfg.batch, FALSE)]
            /\ kwargs = NoKw
            /\ raised = "none"
            /\ calls = 0

\* rule = Rule(connection, ...)
Construct ==
    /\ pc = "new"
    /\ LET res == Constructor(args, connection, source, target)
       IN  /\ pc' = IF res.raised = "none" THEN "ready" ELSE "failed"
           /\ raised' = res.raised
           /\ self' = IF res.raised = "none" THEN res.self ELSE self
    /\ UNCHANGED <<args, connection, source, target, kwargs, calls>>

\* One time step: the populations take new values, then rule.update(**kwargs).
\* A call that raised anything but a missing reward ends the behaviour.
Update ==
    /\ pc = "ready"
    /\ raised \in {"none", "KeyError"}
    /\ calls < MaxCalls
    /\ \E in \in Inputs(self) :
        LET nb == source.batch_size
            B(isSource, p) == PopBoard(connection, nb, isSource, p[1], p[2])
            src == [source EXCEPT !.s = B(TRUE, in.ss), !.x = B(TRUE, in.sx)]
            tgt == [target EXCEPT !.s = B(FALSE, in.ts), !.x = B(FALSE, in.tx),
                                  !.x_neg = B(FALSE, in.txn), !.s_prob = B(FALSE, in.tp)]
        IN  \E res \in {Call(self, connection, src, tgt, in.kw)} :
                /\ source' = src
                /\ target' = tgt
                /\ kwargs' = in.kw
                /\ self' = res.self
                /\ connection' = [connection EXCEPT !.w = res.w]
                /\ raised' = res.raised
    /\ calls' = calls + 1
    /\ UNCHANGED <<pc, args>>

Next == Construct \/ Update

\* Entries of the weight matrix
Entries(w) == {w[i][k] : i \in DOMAIN w, k \in DOMAIN w[1]}

\* An update call has just been made / has just returned
Called == pc = "ready" /\ calls > 0
CallReturned == Called /\ raised = "none"
UpdateStep == pc = "ready" /\ calls' = calls + 1

---------------------------------------------------------------------------
(* Bounded weights: every rule but NoOp on a connection with finite bounds. *)

BoundedCfg(r, t, b, nb) ==
    Extra(Cfg(r, t, b, <<Neg(Half), <<3, 2>>>>, Scalar(<<2, 1>>), "None", Zero, nb), SmallTc)

ConfigsBounded ==
    {BoundedCfg(r, t, UnitBounds, nb) :
        r \in Rules \ {"NoOp"}, t \in {"Connection", "Conv2dConnection"}, nb \in 1..MaxBatch}
    \cup {BoundedCfg(r, t, <<<<-1, 4>>, <<1, 4>>>>, 1) :
        r \in Rules \ {"NoOp"}, t \in {"Connection", "Conv2dConnection"}}

InitBounded == InitOver(ConfigsBounded)

SpecBounded == InitBounded /\ [][Next]_vars

\* C1: for every rule other than NoOp on a connection whose wmin and wmax
\* are both finite (wmin <= wmax), after every update call that returned
\* every weight entry lies in [wmin, wmax].
WeightsWithinBounds ==
    (/\ CallReturned
     /\ self.rule # "NoOp"
     /\ IsFinite(connection.wmin) /\ IsFinite(connection.wmax)
     /\ Le(connection.wmin, connection.wmax))
        => \A x \in Entries(connection.w) :
                Le(connection.wmin, x) /\ Le(x, connection.wmax)

\* PostPre with bounds [0, 1] has returned from its first call, and the
\* weights that started at -1/2 and 3/2 sit on the two bounds.
PostPreClampedToUnit ==
    /\ CallReturned /\ calls = 1
    /\ self.rule = "PostPre"
    /\ connection.wmin = Zero /\ connection.wmax = One
    /\ Entries(connection.w) = {Zero, One}

---------------------------------------------------------------------------
(* NoOp: any connection type, any bounds, weights inside and outside them. *)

ConfigsNoOp ==
    {Cfg("NoOp", t, b, w, nu, "None", d, nb) :
        t \in Types,
        b \in {Unbounded, UnitBounds, <<Zero, PosInf>>},
        w \in {<<Half, <<1, 4>>>>, <<Neg(One), <<3, 1>>>>},
        nu \in {NuNone},
        d \in {Zero, Half, <<1, 10>>},
        nb \in 1..MaxBatch}

InitNoOp == InitOver(ConfigsNoOp)

SpecNoOp == InitNoOp /\ [][Next]_vars

\* C2: an update call of NoOp returns and sets every weight to
\* w_old * (1 - weight_decay), which is w_old when weight_decay = 0, whatever
\* the spikes, traces, reward and bounds are, and nothing is clamped.
NoOpOnlyDecays ==
    [][(UpdateStep /\ self.rule = "NoOp") =>
            /\ raised' = "none"
            /\ connection'.w = MapM(connection.w,
                                    LAMBDA x : Mul(x, Sub(One, args.weight_decay)))
            /\ (args.weight_decay = Zero => connection'.w = connection.w)]_vars

\* NoOp with bounds [0, 1] and weight_decay 1/2 has been called on the
\* weights -1 and 3: they are -1/2 and 3/2 now, outside the bounds.
NoOpLeftWeightsOutside ==
    /\ CallReturned /\ calls = 1
    /\ self.rule = "NoOp"
    /\ args.weight_decay = Half
    /\ connection.wmin = Zero /\ connection.wmax = One
    /\ Entries(connection.w) = {Neg(Half), <<3, 2>>}

---------------------------------------------------------------------------
(* Hebbian on dense and local connections without bounds or decay. *)

ConfigsHebbian ==
    {Cfg("Hebbian", t, Unbounded, <<Half, Neg(One)>>, nu, red, Zero, nb) :
        t \in {"Connection", "LocalConnection"},
        nu \in {Seq2(<<1, 10>>, <<1, 5>>)},
        red \in {"None", "sum"},
        nb \in 1..MaxBatch}

InitHebbian == InitOver(ConfigsHebbian)

SpecHebbian == InitHebbian /\ [][Next]_vars

\* The reduction the rule was constructed with (None is the mean), over the
\* batch axis, of the per-sample values F(1), ..., F(batch_size)
ConfiguredReduce(F(_)) ==
    IF args.reduction = "sum" THEN SumTo(source.batch_size, F)
    ELSE Div(SumTo(source.batch_size, F), <<source.batch_size, 1>>)

\* C3: a Hebbian update on a dense or local connection with wmin = -inf,
\* wmax = +inf and weight_decay = 0 returns with every weight equal to
\* w_old + nu[0] * reduce(outer(pre_spike, post_trace))
\*       + nu[1] * reduce(outer(pre_trace, post_spike)): both terms added.
HebbianAddsBothTerms ==
    [][(/\ UpdateStep
        /\ self.rule = "Hebbian" /\ IsDense(connection)
        /\ connection.wmin = NegInf /\ connection.wmax = PosInf
        /\ args.weight_decay = Zero) =>
            /\ raised' = "none"
            /\ \A src \in {source'}, tgt \in {target'}, w_new \in {connection'.w} :
                \A i \in 1..SourceN, k \in 1..TargetN :
                    w_new[i][k] =
                        Add(Add(connection.w[i][k],
                                Mul(self.nu[1], ConfiguredReduce(
                                    LAMBDA b : Mul(src.s[b][i], tgt.x[b][k])))),
                            Mul(self.nu[2], ConfiguredReduce(
                                    LAMBDA b : Mul(src.x[b][i], tgt.s[b][k]))))]_vars

\* Hebbian with nu = [1/10, 1/5] has made one call on a batch of one in which
\* unit 1 of both populations spiked with trace 1: the weight 1/2 between
\* them has grown by 1/10 + 1/5.
HebbianBothTermsAdded ==
    /\ CallReturned /\ calls = 1
    /\ self.rule = "Hebbian" /\ IsDense(connection)
    /\ source.batch_size = 1
    /\ source.s[1][1] = One /\ source.x[1][1] = One
    /\ target.s[1][1] = One /\ target.x[1][1] = One
    /\ connection.w[1][1] = <<4, 5>>

---------------------------------------------------------------------------
(* MSTDP on dense and convolutional connections without bounds or decay. *)

ConfigsMSTDP ==
    {Extra(Cfg("MSTDP", t, Unbounded, <<Half, Neg(One)>>, Scalar(One), red, Zero, nb), SmallTc) :
        t \in {"Connection", "Conv2dConnection"},
        red \in {"None", "sum"},
        nb \in 1..MaxBatch}

InitMSTDP == InitOver(ConfigsMSTDP)

SpecMSTDP == InitMSTDP /\ [][Next]_vars

\* Entry (i, k) for sample b of the synapse-shaped state tensor obj.name:
\* zero before the first call creates it; a tensor stored without a batch
\* axis holds the one value of the synapse.
StateAt(obj, name, b, i, k) ==
    IF name \notin DOMAIN obj THEN Zero
    ELSE IF Len(obj[name].shape) = Len(WShape(connection)) + 1
    THEN obj[name].data[b][i][k]
    ELSE obj[name].data[i][k]

\* The point eligibility the previous call left
PreviousEligibility(b, i, k) == StateAt(self, "eligibility", b, i, k)

\* The weight change of this step is nu[0] * reduce(reward * eligibility of
\* the previous call).
AppliesPreviousEligibility ==
    \A kw \in {kwargs'}, w_new \in {connection'.w} :
        "reward" \in DOMAIN kw =>
            \A i \in 1..Rows(connection), k \in 1..Cols(connection) :
                w_new[i][k] =
                    Add(connection.w[i][k],
                        Mul(self.nu[1], ConfiguredReduce(
                            LAMBDA b : Mul(kw.reward, PreviousEligibility(b, i, k)))))

\* C4: in MSTDP, dense and convolutional, the weight change applied in call
\* k is nu[0] * reduce(reward_k * eligibility_(k-1)), eligibility_(k-1) being
\* the point eligibility computed at the end of call k-1 (zero before the
\* first call).
MSTDPAppliesPreviousEligibility ==
    [][(UpdateStep /\ self.rule = "MSTDP") => AppliesPreviousEligibility]_vars

\* The same for the dense form alone.
MSTDPDenseAppliesPreviousEligibility ==
    [][(UpdateStep /\ self.rule = "MSTDP" /\ IsDense(connection))
            => AppliesPreviousEligibility]_vars

---------------------------------------------------------------------------
(* MSTDPET on dense and convolutional connections. *)

ConfigsMSTDPET ==
    {Extra(Cfg("MSTDPET", t, Unbounded, <<Half, Neg(One)>>, Scalar(One), "None", Zero, nb),
           SmallTc) :
        t \in {"Connection", "Conv2dConnection"}, nb \in 1..MaxBatch}

InitMSTDPET == InitOver(ConfigsMSTDPET)

SpecMSTDPET == InitMSTDPET /\ [][Next]_vars

\* The eligibility trace this step leaves is the one it found, decayed by
\* exp(-dt / tc_e_trace), plus the previous point eligibility / tc_e_trace.
FiltersPreviousEligibility ==
    \A kw \in {kwargs'}, after \in {self'} :
        "reward" \in DOMAIN kw =>
            \A b \in 1..source.batch_size,
               i \in 1..Rows(connection), k \in 1..Cols(connection) :
                StateAt(after, "eligibility_trace", b, i, k) =
                    Add(Mul(StateAt(self, "eligibility_trace", b, i, k),
                            Exp(Neg(Div(connection.dt, self.tc_e_trace)))),
                        Div(PreviousEligibility(b, i, k), self.tc_e_trace))

\* C5: in MSTDPET, dense and convolutional, the eligibility trace after call
\* k is eligibility_trace_(k-1) * exp(-dt/tc_e_trace)
\* + eligibility_(k-1) / tc_e_trace.
MSTDPETTraceFiltersEligibility ==
    [][(UpdateStep /\ self.rule = "MSTDPET") => FiltersPreviousEligibility]_vars

\* The same for the dense form alone.
MSTDPETDenseTraceFiltersEligibility ==
    [][(UpdateStep /\ self.rule = "MSTDPET" /\ IsDense(connection))
            => FiltersPreviousEligibility]_vars

---------------------------------------------------------------------------
(* Rmax on dense connections, with tc_c = 0 and with its default. *)

ConfigsRmax ==
    {Extra(Cfg("Rmax", t, Unbounded, <<Half, Neg(One)>>, Scalar(One), "None", Zero, nb),
           [tc_e_trace |-> <<2, 1>>, tc_c |-> tc_c]) :
        t \in {"Connection", "LocalConnection"}, nb \in 1..MaxBatch,
        tc_c \in {Zero, <<TcCDefault, 1>>}}

InitRmax == InitOver(ConfigsRmax)

SpecRmax == InitRmax /\ [][Next]_vars

\* C6: with tc_c = 0 the term subtracted from post_spike is zero, so each
\* Rmax update that returns adds exactly outer(pre_trace, post_spike) to the
\* decayed eligibility trace.
RmaxPureHebbianAtZeroTcC ==
    [][(UpdateStep /\ self.rule = "Rmax" /\ self.tc_c = Zero) =>
        \A r \in {raised'}, after \in {self'}, src \in {source'}, tgt \in {target'} :
            r = "none" =>
                \A i \in 1..SourceN, k \in 1..TargetN :
                    after.eligibility_trace.data[i][k] =
                        Add(Mul(StateAt(self, "eligibility_trace", 1, i, k),
                                Sub(One, Div(connection.dt, self.tc_e_trace))),
                            Mul(src.x[1][i], tgt.s[1][k]))]_vars

---------------------------------------------------------------------------
(* WeightDependentPostPre on dense connections: the table lookup. *)

ConfigsLookup ==
    {Extra(Cfg("WeightDependentPostPre", t, UnitBounds, <<Half, <<1, 4>>>>, Scalar(One),
               "None", Zero, nb),
           [tc_trace |-> <<100, 1>>, tc_trace_neg |-> <<100, 1>>]) :
        t \in {"Connection", "LocalConnection"}, nb \in 1..MaxBatch}

InitLookup == InitOver(ConfigsLookup)

SpecLookup == InitLookup /\ [][Next]_vars

\* The two delta matrices an update of the dense rule looks up: before a
\* pre-synaptic spike and after a post-synaptic one
PreDelta(src, tgt) ==
    MapM(OuterDense(self, src, src.s, tgt.x_neg), LAMBDA p : Mul(self.tc_trace_neg, Log(p)))
PostDelta(src, tgt) ==
    MapM(OuterDense(self, src, src.x, tgt.s), LAMBDA p : Mul(Neg(self.tc_trace), Log(p)))

\* The delta index delta + 60 is greater than 120 or less than 0
IndexOutOfRange(delta) ==
    \/ Lt(<<DeltaMax, 1>>, Add(delta, <<DeltaOffset, 1>>))
    \/ Lt(Add(delta, <<DeltaOffset, 1>>), Zero)

\* The table row of a weight, and whether the table has it
RowOf(x) == round_to_percent(x, self.nu[1])
RowInTable(x) == PercentError(x, self.nu[1]) = "none" /\ RowOf(x) < TableRows

\* The column-0 entry of the row of weight x
ColumnZeroEntry(x) == STDP_base(RowOf(x), 0)

Synapses == (1..SourceN) \X (1..TargetN)

\* C7: in the dense WeightDependentPostPre lookup, a synapse whose delta
\* index is greater than 120 or less than 0 gets the column-0 entry of the
\* table row of its weight, and its lookup does not raise; an update all of
\* whose indices are out of range returns, and a synapse out of range in
\* both lookups moves by (nu[0] + nu[1]) times that entry (then the bounds).
OutOfRangeReadsColumnZero ==
    [][(/\ UpdateStep
        /\ self.rule = "WeightDependentPostPre" /\ IsDense(connection)
        /\ \A x \in Entries(connection.w) : RowInTable(x)) =>
        \A src \in {source'}, tgt \in {target'}, w_new \in {connection'.w}, r \in {raised'} :
        \A pre \in {PreDelta(src, tgt)}, post \in {PostDelta(src, tgt)} :
            /\ \A d \in {pre, post} : \A res \in {delta_w_custom(self, connection, d)} :
                \A syn \in Synapses :
                    LET i == syn[1]
                        k == syn[2]
                    IN  IndexOutOfRange(d[i][k]) =>
                            /\ LookupError(RowOf(connection.w[i][k]), d[i][k]) = "none"
                            /\ res.raised = "none" =>
                                    res.value[i][k] = ColumnZeroEntry(connection.w[i][k])
            /\ (\A syn \in Synapses :
                    /\ IndexOutOfRange(pre[syn[1]][syn[2]])
                    /\ IndexOutOfRange(post[syn[1]][syn[2]])) => r = "none"
            /\ (r = "none" /\ self.post_spike_weight_decay = Zero) =>
                    \A syn \in Synapses :
                        LET i == syn[1]
                            k == syn[2]
                            x == connection.w[i][k]
                        IN  (IndexOutOfRange(pre[i][k]) /\ IndexOutOfRange(post[i][k])) =>
                                w_new[i][k] =
                                    Clamp(Add(x, Mul(Add(self.nu[1], self.nu[2]),
                                                     ColumnZeroEntry(x))),
                                          connection.wmin, connection.wmax)]_vars

\* A first call on a batch of one has returned in which the first synapse
\* had the delta index -1 before the pre-synaptic spike and 121 after the
\* post-synaptic one: its weight 1/2 moved by twice the column-0 entry of
\* row 50.
LookupFellBackToColumnZero ==
    /\ CallReturned /\ calls = 1
    /\ self.rule = "WeightDependentPostPre" /\ IsDense(connection)
    /\ source.batch_size = 1
    /\ source.s[1][1] = One /\ target.s[1][1] = One
    /\ source.x[1][1] = Exp(<<-61, 100>>) /\ target.x_neg[1][1] = Exp(<<-61, 100>>)
    /\ Add(PostDelta(source, target)[1][1], <<DeltaOffset, 1>>) = <<121, 1>>
    /\ Add(PreDelta(source, target)[1][1], <<DeltaOffset, 1>>) = <<-1, 1>>
    /\ connection.w[1][1] = Add(Half, Mul(<<2, 1>>, STDP_base(50, 0)))

---------------------------------------------------------------------------
(* Construction: rules, connection types and population capabilities. *)

\* What a population may lack
AllCapable == [straces |-> TRUE]
Incapable ==
    {[straces |-> FALSE], [ttraces |-> FALSE], [sadditive |-> FALSE],
     [tclass |-> "LIFNodes"], [wmin |-> NegInf, wmax |-> PosInf]}

ConstructCfg(r, t, v) ==
    Extra(Cfg(r, t, UnitBounds, <<Half, <<1, 4>>>>, Scalar(One), "None", Zero, 1), v)

ConfigsConstruct ==
    {ConstructCfg(r, t, AllCapable) : r \in Rules, t \in Types \ {"LocalConnection"}}
    \cup {ConstructCfg(r, t, v) :
            r \in Rules \ {"NoOp", "MSTDP", "MSTDPET"},
            t \in {"Conv2dConnection", "SparseConnection"}, v \in Incapable}

InitConstruct == InitOver(ConfigsConstruct)

SpecConstruct == InitConstruct /\ [][Next]_vars

Unsupported == ~IsDense(connection) /\ ~IsConv(connection)
Constructed == pc = "ready"
Rejected == pc = "failed"
BoundConv == Constructed /\ self.update = "_conv2d_connection_update"

\* The checks a constructor makes before it looks at the connection type
EarlierChecksPass ==
    CASE args.rule \in {"PostPre", "Hebbian"} -> source.traces /\ target.traces
      [] args.rule = "WeightDependentPostPre" ->
            source.traces /\ connection.wmin # NegInf /\ connection.wmax # PosInf
      [] args.rule = "Rmax" ->
            source.traces /\ source.traces_additive /\ target.class = "SRM0Nodes"
      [] OTHER -> TRUE

\* Rmax fails on a convolutional connection whatever the populations are;
\* PostPre and Hebbian (with traces on both populations), MSTDP and MSTDPET
\* succeed on one and bind the convolutional update.
ConvolutionalMatrix ==
    IsConv(connection) =>
        /\ args.rule = "Rmax" => Rejected
        /\ (args.rule \in {"PostPre", "Hebbian"} /\ source.traces /\ target.traces)
                => BoundConv
        /\ args.rule \in {"MSTDP", "MSTDPET"} => BoundConv

\* C8, as stated: the convolutional matrix, and any connection type that is
\* neither dense/local nor convolutional is rejected with a capability error.
CapabilityMatrix ==
    pc # "new" =>
        /\ ConvolutionalMatrix
        /\ Unsupported => (Rejected /\ raised = "NotImplementedError")

\* C8, amended: the convolutional matrix; every rule but NoOp rejects a
\* connection type that is neither dense/local nor convolutional, with the
\* capability error when the rule's earlier checks pass and with their
\* assertion failure otherwise; NoOp accepts any connection type.
CapabilityMatrixButNoOp ==
    pc # "new" =>
        /\ ConvolutionalMatrix
        /\ (Unsupported /\ args.rule # "NoOp") =>
                /\ Rejected
                /\ raised = IF EarlierChecksPass THEN "NotImplementedError"
                                                ELSE "AssertionError"
        /\ (Unsupported /\ args.rule = "NoOp") => Constructed

\* Hebbian, both populations recording traces, was given a connection of an
\* unsupported type and rejected it with the capability error.
UnsupportedTypeRejected ==
    /\ Rejected /\ Unsupported
    /\ args.rule = "Hebbian" /\ source.traces /\ target.traces
    /\ raised = "NotImplementedError"

---------------------------------------------------------------------------
(* The reward-modulated rules called with and without a reward. *)

RewardRules == {"MSTDP", "MSTDPET", "Rmax"}

RewardCfg(r, t, nb) ==
    Extra(Cfg(r, t, UnitBounds, <<Half, <<1, 4>>>>, Scalar(One), "None", Zero, nb),
          SmallTc)

ConfigsReward ==
    {RewardCfg(r, "Connection", nb) : r \in RewardRules, nb \in 1..MaxBatch}
    \cup {RewardCfg(r, "Conv2dConnection", 1) : r \in {"MSTDP", "MSTDPET"}}

InitReward == InitOver(ConfigsReward)

SpecReward == InitReward /\ [][Next]_vars

\* C9: an update call of MSTDP, MSTDPET or Rmax whose keyword arguments
\* carry no reward fails with a key-lookup error, at the first call and at
\* every later one, and leaves the weights as they were.
MissingRewardIsKeyError ==
    [][(UpdateStep /\ self.rule \in RewardRules) =>
         \A kw \in {kwargs'}, r \in {raised'}, w_new \in {connection'.w} :
             "reward" \notin DOMAIN kw => (r = "KeyError" /\ w_new = connection.w)]_vars

\* A later call of Rmax, its eligibility trace already advanced by earlier
\* calls, was made without a reward and failed with KeyError.
LaterCallWithoutReward ==
    /\ calls >= 2 /\ self.rule = "Rmax" /\ "reward" \notin DOMAIN kwargs
    /\ raised = "KeyError"
    /\ "eligibility_trace" \in DOMAIN self
    /\ self.eligibility_trace.data # ZerosM(SourceN, TargetN)

---------------------------------------------------------------------------
(* The learning rates a rule is constructed with. *)

\* nu as absent or a number, and nu as a sequence of one, two or three
NuNumbers == {NuNone, Scalar(One)}
NuSequences ==
    {[kind |-> "seq", val |-> <<One>>], Seq2(<<1, 10>>, <<1, 5>>),
     [kind |-> "seq", val |-> <<One, Half, Zero>>]}

ConfigsNu(nus) ==
    {Extra(Cfg(r, "Connection", UnitBounds, <<Half, <<1, 4>>>>, nu, "None", Zero, 1),
           SmallTc) : r \in Rules, nu \in nus}

InitNu == InitOver(ConfigsNu(NuNumbers)) \/ InitOver(ConfigsNu(NuSequences))

SpecNu == InitNu /\ [][Next]_vars

\* C10, as stated: after construction of any rule nu has exactly two
\* entries.
NuAlwaysTwoEntries == Constructed => Len(self.nu) = 2

\* C10, amended: after construction, and through every update, nu is
\* <<0, 0>> when none was given, <<nu, nu>> when a number was given and the
\* sequence itself when a sequence was given; it has exactly two entries
\* when nu was absent, a number or a two-element sequence.
NuTwoEntriesUnlessOtherLength ==
    Constructed =>
        /\ args.nu.kind = "None" => self.nu = <<Zero, Zero>>
        /\ args.nu.kind = "scalar" => self.nu = <<args.nu.val, args.nu.val>>
        /\ args.nu.kind = "seq" => self.nu = args.nu.val
        /\ (args.nu.kind \in {"None", "scalar"} \/ Len(args.nu.val) = 2)
               => Len(self.nu) = 2

\* A rule constructed with the number 1 holds <<1, 1>> after two updates.
ScalarNuPaired ==
    /\ CallReturned /\ calls >= 2
    /\ args.nu.kind = "scalar" /\ self.nu = <<One, One>>

---------------------------------------------------------------------------
(* The clamp with one bound infinite. *)

HalfBounded == {<<Zero, PosInf>>, <<NegInf, One>>}

ConfigsClamp ==
    {Extra(Cfg(r, "Connection", b, <<Neg(Half), <<3, 2>>>>, Scalar(One), "None", Zero, 1),
           SmallTc) :
        r \in {"NoOp", "PostPre", "Hebbian", "MSTDP", "Rmax"},
        b \in HalfBounded \cup {Unbounded, UnitBounds}}

InitClamp == InitOver(ConfigsClamp)

SpecClamp == InitClamp /\ [][Next]_vars

\* No spike in either population: PostPre and Hebbian then add nothing
Quiet(src, tgt) == Entries(src.s) = {Zero} /\ Entries(tgt.s) = {Zero}

ClampM(w) == MapM(w, LAMBDA x : Clamp(x, connection.wmin, connection.wmax))

BothFinite == connection.wmin # NegInf /\ connection.wmax # PosInf
SomeFinite == connection.wmin # NegInf \/ connection.wmax # PosInf

\* C11, as stated: the clamp is applied exactly when both bounds are finite
\* and the rule is not NoOp, so with one bound infinite an update that adds
\* nothing (no spikes, weight_decay 0) leaves the weights as they were, also
\* those beyond the finite bound.
ClampOnlyWhenBothFinite ==
    [][(UpdateStep /\ self.rule \in {"NoOp", "PostPre", "Hebbian"}) =>
         \A src \in {source'}, tgt \in {target'}, w_new \in {connection'.w} :
            Quiet(src, tgt) =>
                w_new = IF BothFinite /\ self.rule # "NoOp"
                        THEN ClampM(connection.w) ELSE connection.w]_vars

\* C11, amended: the clamp is applied exactly when at least one bound is
\* finite and the rule is not NoOp.  After every returned update of a rule
\* other than NoOp no weight lies beyond a finite bound, and an update that
\* adds nothing (no spikes, weight_decay 0) returns the old weights clamped
\* into [wmin, wmax], the infinite side left open; NoOp never clamps.
ClampWhenSomeBoundFinite ==
    [][UpdateStep =>
         \A src \in {source'}, tgt \in {target'}, w_new \in {connection'.w},
            r \in {raised'} :
            /\ (r = "none" /\ self.rule # "NoOp") =>
                    \A x \in Entries(w_new) :
                        Le(connection.wmin, x) /\ Le(x, connection.wmax)
            /\ (Quiet(src, tgt) /\ self.rule \in {"NoOp", "PostPre", "Hebbian"}) =>
                    w_new = IF SomeFinite /\ self.rule # "NoOp"
                            THEN ClampM(connection.w) ELSE connection.w]_vars

\* PostPre with wmin = 0 and wmax = +inf has returned from a first call
\* without spikes: the weight -1/2 was raised to 0, the weight 3/2 was kept.
LowerBoundClamped ==
    /\ CallReturned /\ calls = 1
    /\ self.rule = "PostPre"
    /\ connection.wmin = Zero /\ connection.wmax = PosInf
    /\ Entries(connection.w) = {Zero, <<3, 2>>}

---------------------------------------------------------------------------
(* The table lookup with fractional deltas. *)

\* Time constants of 1: the traces exp(-t / 100) give the deltas -t / 100
\* and t / 100, and the trace 1 gives the delta 0.
ConfigsColumn ==
    {Extra(Cfg("WeightDependentPostPre", t, UnitBounds, <<Half, <<1, 4>>>>, Scalar(One),
               "None", Zero, nb),
           [tc_trace |-> One, tc_trace_neg |-> One]) :
        t \in {"Connection", "LocalConnection"}, nb \in 1..MaxBatch}

InitColumn == InitOver(ConfigsColumn)

SpecColumn == InitColumn /\ [][Next]_vars

\* The delta index delta + 60 lies in [0, 120]
IndexInRange(delta) == ~IsNaN(delta) /\ ~IndexOutOfRange(delta)

\* delta + 60 cut to an integer, and delta rounded to the nearest integer
\* plus 60
TruncatedColumn(delta) == Floor(Add(delta, <<DeltaOffset, 1>>))
RoundedColumn(delta) == Round(delta) + DeltaOffset

\* Every lookup of a dense WeightDependentPostPre update reads, for a synapse
\* whose index is in range, the column Col(delta) of the row of its weight,
\* and a returned update moves a synapse in range in both lookups by
\* nu[0] and nu[1] times the two entries (then the bounds).
ReadsColumn(Col(_)) ==
       (/\ UpdateStep
        /\ self.rule = "WeightDependentPostPre" /\ IsDense(connection)
        /\ \A x \in Entries(connection.w) : RowInTable(x)) =>
        \A src \in {source'}, tgt \in {target'}, w_new \in {connection'.w}, r \in {raised'} :
        \A pre \in {PreDelta(src, tgt)}, post \in {PostDelta(src, tgt)} :
            /\ \A d \in {pre, post} : \A res \in {delta_w_custom(self, connection, d)} :
                \A syn \in Synapses :
                    LET i == syn[1]
                        k == syn[2]
                    IN  (IndexInRange(d[i][k]) /\ res.raised = "none") =>
                            res.value[i][k] =
                                STDP_base(RowOf(connection.w[i][k]), Col(d[i][k]))
            /\ (r = "none" /\ self.post_spike_weight_decay = Zero) =>
                    \A syn \in Synapses :
                        LET i == syn[1]
                            k == syn[2]
                            x == connection.w[i][k]
                        IN  (IndexInRange(pre[i][k]) /\ IndexInRange(post[i][k])) =>
                                w_new[i][k] =
                                    Clamp(Add(x,
                                        Add(Mul(self.nu[1],
                                                STDP_base(RowOf(x), Col(pre[i][k]))),
                                            Mul(self.nu[2],
                                                STDP_base(RowOf(x), Col(post[i][k]))))),
                                          connection.wmin, connection.wmax)

\* C12, as stated: the column read for a delta whose index is in range is
\* round(delta) + 60, delta rounded to the nearest integer.
ColumnIsRoundedDelta == [][ReadsColumn(RoundedColumn)]_vars

\* C12, amended: the column read for a delta whose index is in range is
\* delta + 60 cut to an integer (its fraction dropped): 60 for delta = 0.65
\* and 59 for delta = -0.65.
ColumnIsTruncatedIndex == [][ReadsColumn(TruncatedColumn)]_vars

\* A first call on a batch of one has returned in which the first synapse
\* had the deltas -65/100 and 65/100: its weight 1/2 moved by the entries of
\* columns 59 and 60 of row 50.
FractionalDeltaLookedUp ==
    /\ CallReturned /\ calls = 1
    /\ self.rule = "WeightDependentPostPre" /\ IsDense(connection)
    /\ source.batch_size = 1 /\ self.tc_trace = One
    /\ PreDelta(source, target)[1][1] = R(-65, 100)
    /\ PostDelta(source, target)[1][1] = R(65, 100)
    /\ connection.w[1][1] = Add(Half, Add(STDP_base(50, 59), STDP_base(50, 60)))

---------------------------------------------------------------------------
(* The logarithm of a reduced product that is zero or negative. *)

\* The two reduced outer products whose logarithms are looked up
PreProduct(src, tgt) == OuterDense(self, src, src.s, tgt.x_neg)
PostProduct(src, tgt) == OuterDense(self, src, src.x, tgt.s)

NonPositive(p) == p = Zero \/ Lt(p, Zero)

\* C13, as stated: when a reduced product passed to the logarithm is zero or
\* negative for some synapse, the update returns and the value looked up for
\* that synapse is not finite.
NonPositiveLogPropagates ==
    [][(/\ UpdateStep
        /\ self.rule = "WeightDependentPostPre" /\ IsDense(connection)
        /\ \A x \in Entries(connection.w) : RowInTable(x)) =>
        \A src \in {source'}, tgt \in {target'}, r \in {raised'} :
        \A pp \in {<<PreProduct(src, tgt), PreDelta(src, tgt)>>,
                    <<PostProduct(src, tgt), PostDelta(src, tgt)>>} :
        \A res \in {delta_w_custom(self, connection, pp[2])} :
        \A syn \in Synapses :
            NonPositive(pp[1][syn[1]][syn[2]]) =>
                /\ r = "none"
                /\ ~IsFinite(res.value[syn[1]][syn[2]])]_vars

\* C13, amended: a reduced product of zero gives an infinite delta, whose
\* index is out of range, so the lookup returns the finite column-0 entry of
\* the synapse's row; a negative reduced product gives NaN, which passes the
\* range test and fails the conversion to an index, so the update raises
\* ValueError and leaves the weights as they were.  The weights of a
\* returned update are finite.
NonPositiveLogIsCaught ==
    [][(/\ UpdateStep
        /\ self.rule = "WeightDependentPostPre" /\ IsDense(connection)
        /\ \A x \in Entries(connection.w) : RowInTable(x)) =>
        \A src \in {source'}, tgt \in {target'}, w_new \in {connection'.w}, r \in {raised'} :
        \A pp \in {<<PreProduct(src, tgt), PreDelta(src, tgt)>>,
                    <<PostProduct(src, tgt), PostDelta(src, tgt)>>} :
        \A res \in {delta_w_custom(self, connection, pp[2])} :
            /\ \A syn \in Synapses :
                LET i == syn[1]
                    k == syn[2]
                IN  /\ (pp[1][i][k] = Zero /\ res.raised = "none") =>
                            res.value[i][k] = ColumnZeroEntry(connection.w[i][k])
                    /\ Lt(pp[1][i][k], Zero) =>
                            /\ LookupError(RowOf(connection.w[i][k]), pp[2][i][k])
                                    = "ValueError"
                            /\ res.raised = "ValueError"
                            /\ r = "ValueError" /\ w_new = connection.w
            /\ r = "none" => \A x \in Entries(w_new) : IsFinite(x)]_vars

\* A first call without any spike has returned: every reduced product was
\* zero, and the weight 1/2 moved by twice the column-0 entry of row 50.
ZeroProductReadColumnZero ==
    /\ CallReturned /\ calls = 1
    /\ self.rule = "WeightDependentPostPre" /\ IsDense(connection)
    /\ Entries(PreProduct(source, target)) = {Zero}
    /\ Entries(PostProduct(source, target)) = {Zero}
    /\ Entries(source.s) = {Zero}
    /\ connection.w[1][1] = Add(Half, Mul(<<2, 1>>, STDP_base(50, 0)))

---------------------------------------------------------------------------
(* The convolutional MSTDP update. *)

\* C14: on every call the convolutional MSTDP update changes the weights by
\* nu[0] * reduce(reward * eligibility), reduced over the batch axis with the
\* configured reduction, eligibility being the per-sample point eligibility
\* of the previous call: each kernel entry receives only the eligibility of
\* that same entry.
MSTDPConvAppliesPreviousEligibility ==
    [][(UpdateStep /\ self.rule = "MSTDP" /\ IsConv(connection))
            => AppliesPreviousEligibility]_vars

---------------------------------------------------------------------------
(* The shapes of the MSTDP state tensors. *)

\* The state tensor obj.name, once it exists, has the given shape
HasShape(obj, name, shape) == name \in DOMAIN obj => obj[name].shape = shape

CreationShapes ==
    /\ HasShape(self, "p_plus", <<source.batch_size>> \o SourceShape(connection))
    /\ HasShape(self, "p_minus", <<source.batch_size>> \o TargetShape(connection))
    /\ HasShape(self, "eligibility", <<source.batch_size>> \o WShape(connection))

\* C15: for MSTDP on both topologies, after the first and after every later
\* update call p_plus has shape [batch, *source_shape], p_minus has shape
\* [batch, *target_shape] and eligibility has shape [batch, *weight_shape].
MSTDPShapesKept == (Called /\ self.rule = "MSTDP") => CreationShapes

\* The same for the dense form alone.
MSTDPDenseShapesKept ==
    (Called /\ self.rule = "MSTDP" /\ IsDense(connection)) => CreationShapes

---------------------------------------------------------------------------
(* The accumulators and the point eligibility of MSTDP. *)

\* Entry of an accumulator, zero before the first call creates it: p[b][i]
\* of the dense form and p[b][j][l] of the convolutional one
AccAt2(obj, name, b, i) ==
    IF name \notin DOMAIN obj THEN Zero ELSE obj[name].data[b][i]
AccAt3(obj, name, b, j, l) ==
    IF name \notin DOMAIN obj THEN Zero ELSE obj[name].data[b][j][l]

DecayOf(tc) == Exp(Neg(Div(connection.dt, tc)))

\* A dense MSTDP step: the accumulators decay and take the spikes of this
\* call, and the point eligibility is built from the accumulators just
\* updated.
DenseRecurrence ==
    \A kw \in {kwargs'}, src \in {source'}, tgt \in {target'}, after \in {self'} :
        "reward" \in DOMAIN kw =>
            \A b \in 1..source.batch_size :
                /\ \A i \in 1..SourceN :
                        after.p_plus.data[b][i] =
                            Add(Mul(AccAt2(self, "p_plus", b, i), DecayOf(self.tc_plus)),
                                Mul(Get(kw, "a_plus", One), src.s[b][i]))
                /\ \A k \in 1..TargetN :
                        after.p_minus.data[b][k] =
                            Add(Mul(AccAt2(self, "p_minus", b, k), DecayOf(self.tc_minus)),
                                Mul(Get(kw, "a_minus", Neg(One)), tgt.s[b][k]))
                /\ \A i \in 1..SourceN, k \in 1..TargetN :
                        after.eligibility.data[b][i][k] =
                            Add(Mul(after.p_plus.data[b][i], tgt.s[b][k]),
                                Mul(src.s[b][i], after.p_minus.data[b][k]))

\* The same step of the convolutional form, on the unfolded source spikes
\* and summed over the output positions.
ConvRecurrence ==
    \A kw \in {kwargs'}, src \in {source'}, tgt \in {target'}, after \in {self'},
       r \in {raised'} :
        "reward" \in DOMAIN kw =>
            \A cols \in {im2col_indices(src.s)} :
            \A b \in 1..source.batch_size :
                /\ \A j \in 1..(InChannels * KernelW), l \in 1..OutW :
                        after.p_plus.data[b][j][l] =
                            Add(Mul(AccAt3(self, "p_plus", b, j, l), DecayOf(self.tc_plus)),
                                Mul(Get(kw, "a_plus", One), cols[b][j][l]))
                /\ \A o \in 1..OutChannels, l \in 1..OutW :
                        after.p_minus.data[b][o][l] =
                            Add(Mul(AccAt3(self, "p_minus", b, o, l), DecayOf(self.tc_minus)),
                                Mul(Get(kw, "a_minus", Neg(One)), tgt.s[b][o][l]))
                /\ r = "none" =>
                        \A o \in 1..OutChannels, j \in 1..(InChannels * KernelW) :
                            after.eligibility.data[o][j] =
                                SumTo(OutW, LAMBDA l :
                                    Add(Mul(tgt.s[b][o][l], after.p_plus.data[b][j][l]),
                                        Mul(after.p_minus.data[b][o][l], cols[b][j][l])))

\* C16: in MSTDP, from zero state and for any spikes, call k leaves
\* p_plus_k = p_plus_(k-1) * exp(-dt/tc_plus) + a_plus * pre_spike_k,
\* p_minus_k = p_minus_(k-1) * exp(-dt/tc_minus) + a_minus * post_spike_k and
\* the point eligibility outer(p_plus_k, post_spike_k)
\* + outer(pre_spike_k, p_minus_k), built from the accumulators of the same
\* call.
MSTDPAccumulatorRecurrence ==
    [][(UpdateStep /\ self.rule = "MSTDP") =>
            IF IsDense(connection) THEN DenseRecurrence ELSE ConvRecurrence]_vars

\* Two dense calls with a pre-synaptic spike in the first unit (a_plus = 1,
\* decay 1/2) have left p_plus = 1/2 + 1 there, and the post-synaptic spike
\* of the second call a point eligibility of 3/2 - 1.
AccumulatorDecayedAndAdded ==
    /\ CallReturned /\ calls = 2
    /\ self.rule = "MSTDP" /\ IsDense(connection)
    /\ source.s[1][1] = One /\ target.s[1][1] = One
    /\ self.p_plus.data[1][1] = <<3, 2>>
    /\ self.p_minus.data[1][1] = Neg(One)
    /\ self.eligibility.data[1][1][1] = Half

---------------------------------------------------------------------------
(* The table lookup at the edge of the range test. *)

\* Time constants of 120: the trace exp(-50 / 100) gives the delta 60 after
\* a post-synaptic spike, whose index is exactly 120.
ConfigsEdge ==
    {Extra(Cfg("WeightDependentPostPre", t, UnitBounds, <<Half, <<1, 4>>>>, Scalar(One),
               "None", Zero, nb),
           [tc_trace |-> <<DeltaMax, 1>>, tc_trace_neg |-> <<DeltaMax, 1>>]) :
        t \in {"Connection", "LocalConnection"}, nb \in 1..MaxBatch}

InitEdge == InitOver(ConfigsEdge)

SpecEdge == InitEdge /\ [][Next]_vars

\* C17: every table read of the dense WeightDependentPostPre lookup uses a
\* column inside the table's columns 0..119, for every delta, a delta index
\* of exactly 120 included; no read falls outside the table.
ColumnInsideTable ==
    [][(/\ UpdateStep
        /\ self.rule = "WeightDependentPostPre" /\ IsDense(connection)
        /\ \A x \in Entries(connection.w) : RowInTable(x)) =>
        \A src \in {source'}, tgt \in {target'}, r \in {raised'} :
        \A d \in {PreDelta(src, tgt), PostDelta(src, tgt)} :
            /\ \A syn \in Synapses :
                    ~IsNaN(d[syn[1]][syn[2]]) =>
                        Floor(SecondIndex(d[syn[1]][syn[2]])) \in 0..(TableCols - 1)
            /\ r # "IndexError"]_vars

---------------------------------------------------------------------------
(* The table row of a weight inside its bounds. *)

ConfigsRow ==
    {Extra(Cfg("WeightDependentPostPre", "Connection", b, w, Scalar(nu), "None", Zero, nb),
           [tc_trace |-> <<100, 1>>, tc_trace_neg |-> <<100, 1>>]) :
        b \in {UnitBounds, <<Zero, <<2, 1>>>>},
        w \in {<<Half, <<1, 4>>>>, <<One, Half>>},
        nu \in {One, Half},
        nb \in 1..MaxBatch}

InitRow == InitOver(ConfigsRow)

SpecRow == InitRow /\ [][Next]_vars

WithinBounds(w) ==
    \A x \in Entries(w) : Le(connection.wmin, x) /\ Le(x, connection.wmax)

\* C18: every table read of the dense WeightDependentPostPre lookup uses a
\* row inside the table's rows 0..100: for finite bounds, weights within
\* them and a nonzero nu[0], the index abs(round(100 * w / nu[0])) is at
\* most 100, at the first update and after any sequence of updates, and no
\* read falls outside the table.
RowInsideTable ==
    [][(/\ UpdateStep
        /\ self.rule = "WeightDependentPostPre" /\ IsDense(connection)
        /\ WithinBounds(connection.w)
        /\ self.nu[1] # Zero) =>
        \A r \in {raised'} :
            /\ \A x \in Entries(connection.w) : RowOf(x) \in 0..(TableRows - 1)
            /\ r # "IndexError"]_vars

---------------------------------------------------------------------------
(* What a call without reward leaves behind. *)

\* Weights that start outside the bounds and a weight decay of 1/2: a call
\* that ran to the end would decay and clamp them.
ConfigsMissing ==
    {Extra(Cfg(r, t, UnitBounds, <<Neg(Half), <<3, 2>>>>, Scalar(One), "None", Half, nb),
           SmallTc) :
        r \in RewardRules, t \in {"Connection"}, nb \in 1..MaxBatch}
    \cup {Extra(Cfg(r, "Conv2dConnection", UnitBounds, <<Neg(Half), <<3, 2>>>>,
                    Scalar(One), "None", Half, 1), SmallTc) : r \in {"MSTDP", "MSTDPET"}}

InitMissing == InitOver(ConfigsMissing)

SpecMissing == InitMissing /\ [][Next]_vars

StateNames == {"p_plus", "p_minus", "eligibility", "eligibility_trace"}

\* Every entry of nested data of the given depth is zero
RECURSIVE AllZero(_, _)
AllZero(x, depth) ==
    IF depth = 0 THEN x = Zero ELSE \A i \in DOMAIN x : AllZero(x[i], depth - 1)

\* Depth of a state tensor's data: its dimensions, with the weight dimensions
\* of a convolutional connection folded to out_channels x (in_channels * kernel)
Depth(t) == IF Len(t.shape) = 5 THEN 3 ELSE Len(t.shape)

\* C19: an update call of MSTDP, MSTDPET or Rmax that fails because reward
\* is missing leaves the weights exactly as they were and advances no
\* accumulator: p_plus, p_minus, eligibility and eligibility_trace are each
\* unchanged or, when the call created them, all zeros; no other attribute
\* of the rule changes.
MissingRewardChangesNothing ==
    [][(UpdateStep /\ self.rule \in RewardRules) =>
         \A kw \in {kwargs'}, after \in {self'}, w_new \in {connection'.w} :
            "reward" \notin DOMAIN kw =>
                /\ w_new = connection.w
                /\ DOMAIN self \subseteq DOMAIN after
                /\ DOMAIN after \ DOMAIN self \subseteq StateNames
                /\ \A name \in DOMAIN after :
                        IF name \in DOMAIN self THEN after[name] = self[name]
                        ELSE AllZero(after[name].data, Depth(after[name]))]_vars

\* A second call of dense MSTDP came without reward while the first source
\* unit fired: p_plus there is still the 1 the first call left, not 3/2, and
\* the weights are those the first call left.
SpikeWithoutRewardNotAccumulated ==
    /\ calls = 2 /\ raised = "KeyError"
    /\ self.rule = "MSTDP" /\ IsDense(connection)
    /\ source.batch_size = 1 /\ source.s[1][1] = One
    /\ self.p_plus.data[1][1] = One
    /\ connection.w[2][1] = <<3, 4>>

---------------------------------------------------------------------------
(* Two runs of dense MSTDP or MSTDPET side by side.  Each variable holds the
   pair of what it holds in one run (args, self, connection, kwargs, raised);
   the populations, the position and the call counter are common: both runs
   see the same spikes, the same a_plus and a_minus and the same time
   constants, and differ in reward, initial weights, bounds and weight_decay. *)

TwinCfg(r, bounds, w, weight_decay, nb) ==
    Extra(Cfg(r, "Connection", bounds, w, Scalar(One), "None", weight_decay, nb), SmallTc)

\* The second run: only the rewards differ, or weights, bounds and decay too
TwinVariants == {<<Unbounded, <<Half, Neg(One)>>, Zero>>, <<UnitBounds, <<One, Zero>>, Half>>}

ConfigsTwin ==
    {<<TwinCfg(r, Unbounded, <<Half, Neg(One)>>, Zero, nb), TwinCfg(r, v[1], v[2], v[3], nb)>> :
        r \in {"MSTDP", "MSTDPET"}, v \in TwinVariants, nb \in 1..MaxBatch}

TwinArgs(cfg) ==
    [k \in {"rule", "nu", "reduction", "weight_decay", "tc_plus", "tc_minus", "tc_e_trace"}
        |-> cfg[k]]

TwinConnection(cfg) ==
    [type |-> cfg.type, wmin |-> cfg.wmin, wmax |-> cfg.wmax, dt |-> One,
     w |-> Board2(SourceN, TargetN, cfg.w[1], cfg.w[2])]

InitTwin ==
    \E pair \in ConfigsTwin :
        LET cfg == pair[1]
            c0 == [type |-> cfg.type, wmin |-> cfg.wmin, wmax |-> cfg.wmax, dt |-> One]
        IN  /\ pc = "new"
            /\ args = <<TwinArgs(pair[1]), TwinArgs(pair[2])>>
            /\ self = <<[rule |-> pair[1].rule], [rule |-> pair[2].rule]>>
            /\ connection = <<TwinConnection(pair[1]), TwinConnection(pair[2])>>
            /\ source = [traces |-> cfg.straces, traces_additive |-> cfg.sadditive,
                         batch_size |-> cfg.batch,
                         s |-> ZerosPop(c0, cfg.batch, TRUE),
                         x |-> ZerosPop(c0, cfg.batch, TRUE)]
            /\ target = [class |-> cfg.tclass, traces |-> cfg.ttraces,
                         s |-> ZerosPop(c0, cfg.batch, FALSE),
                         x |-> ZerosPop(c0, cfg.batch, FALSE),
                         x_neg |-> ZerosPop(c0, cfg.batch, FALSE),
                         s_prob |-> ZerosPop(c0, cfg.batch, FALSE)]
            /\ kwargs = <<NoKw, NoKw>>
            /\ raised = <<"none", "none">>
            /\ calls = 0

\* rule = Rule(connection, ...) in both runs
ConstructTwin ==
    /\ pc = "new"
    /\ \E resA \in {Constructor(args[1], connection[1], source, target)},
          resB \in {Constructor(args[2], connection[2], source, target)} :
            /\ pc' = IF resA.raised = "none" /\ resB.raised = "none" THEN "ready" ELSE "failed"
            /\ raised' = <<resA.raised, resB.raised>>
            /\ self' = <<IF resA.raised = "none" THEN resA.self ELSE self[1],
                         IF resB.raised = "none" THEN resB.self ELSE self[2]>>
    /\ UNCHANGED <<args, connection, source, target, kwargs, calls>>

\* Keyword arguments of a call: a reward, with or without a_plus
TwinRates == {NoKw, [a_plus |-> <<2, 1>>]}
WithReward(kw, reward) == With(kw, "reward", reward)

\* One time step of both runs: the populations take new values, then each
\* run's rule.update(**kwargs) with its own reward.
UpdateTwin ==
    /\ pc = "ready"
    /\ raised = <<"none", "none">>
    /\ calls < MaxCalls
    /\ \E ss \in {ZZ, <<One, Zero>>}, ts \in SpikePairs, rates \in TwinRates,
          rewardB \in {Zero, Neg(One)} :
        LET nb == source.batch_size
            src == [source EXCEPT !.s = PopBoard(connection[1], nb, TRUE, ss[1], ss[2])]
            tgt == [target EXCEPT !.s = PopBoard(connection[1], nb, FALSE, ts[1], ts[2])]
            kwA == WithReward(rates, One)
            kwB == WithReward(rates, rewardB)
        IN  \E resA \in {Call(self[1], connection[1], src, tgt, kwA)},
              resB \in {Call(self[2], connection[2], src, tgt, kwB)} :
                /\ source' = src
                /\ target' = tgt
                /\ kwargs' = <<kwA, kwB>>
                /\ self' = <<resA.self, resB.self>>
                /\ connection' = <<[connection[1] EXCEPT !.w = resA.w],
                                   [connection[2] EXCEPT !.w = resB.w]>>
                /\ raised' = <<resA.raised, resB.raised>>
    /\ calls' = calls + 1
    /\ UNCHANGED <<pc, args>>

NextTwin == ConstructTwin \/ UpdateTwin

SpecTwin == InitTwin /\ [][NextTwin]_vars

\* C20: in dense MSTDP and MSTDPET the eligibility state does not depend on
\* the reward or on the weights: two runs fed the same spikes and the same
\* a_plus and a_minus, with different rewards, initial weights, bounds or
\* weight_decay, hold the same p_plus, p_minus, eligibility and
\* eligibility_trace after every call.
EligibilityStateIgnoresReward ==
    \A name \in StateNames :
        /\ name \in DOMAIN self[1] <=> name \in DOMAIN self[2]
        /\ name \in DOMAIN self[1] => self[1][name] = self[2][name]

\* Two MSTDPET runs after a call with different rewards: their weights have
\* parted, their eligibility traces are the same and not zero.
TwinWeightsPartedTraceShared ==
    /\ pc = "ready" /\ calls >= 2 /\ raised = <<"none", "none">>
    /\ self[1].rule = "MSTDPET"
    /\ kwargs[1].reward # kwargs[2].reward
    /\ connection[1].w # connection[2].w
    /\ self[1].eligibility_trace.data[1][1] # Zero
    /\ self[1].eligibility_trace = self[2].eligibility_trace
    /\ self[1].eligibility.data[1][1] # Zero

===========================================================================
